---- MODULE Spec2Model ----
(***************************************************************************)
(* Persistence core of the honeypot agent: database/service.py             *)
(* (DatabaseService over PostgreSQL) and database/models.py (the pydantic  *)
(* models the rows are parsed into).                                       *)
(*                                                                         *)
(* A table is a set of rows (records).  Optional[T] is a sequence of       *)
(* length <= 1: None is << >> and a present value v is <<v>>.  Timestamps  *)
(* are readings of the logical clock `now`; scores are integer percents.   *)
(* An Enum member is a record [enum, name]; the text PostgreSQL stores is  *)
(* its .value.                                                             *)
(***************************************************************************)
EXTENDS Integers, Sequences, FiniteSets, Bags, TLC

VARIABLES
    sessions,   \* table sessions
    messages,   \* table messages
    intel,      \* table extracted_intelligence
    now,        \* the clock: each writing statement runs at a fresh instant
    nextId,     \* the next generated UUID
    ret,        \* how the last finished call ended
    pc,         \* where each concurrent call stands
    held,       \* the calls holding a pooled connection
    calls,      \* history: per natural key, the extract_intelligence calls executed
    evolution,  \* table state_evolution
    tactics,    \* table scammer_tactics
    logs,       \* table system_logs
    recorded,   \* history: per state_evolution id, the signals_detected its caller gave
    redis,      \* the Redis keys: their values and the instants they expire at
    changed,    \* history: per session_id, when its durable record last changed
    touched,    \* history: per Redis key, the value last written, when it was last
                \* written or its TTL renewed, and whether it was deleted since
    inflight,   \* the pool seen by its load: how many operations are in flight, per
                \* number of connections they hold and still ask for
    lent,       \* how many connections the pool has lent
    finished,   \* how many operations have returned or raised
    pending     \* the results of the statements whose operations are still in
                \* their blocks: how many of each await the release

\* the append-only ledgers besides messages
ledgerVars == <<evolution, tactics, logs, recorded>>

\* the cache and its history
cacheVars == <<redis, changed, touched>>

\* the pool under load
poolVars == <<inflight, lent, finished, pending>>

vars ==
    <<sessions, messages, intel, now, nextId, ret, pc, held, calls, ledgerVars, cacheVars,
      poolVars>>

----------------------------------------------------------------------------
(* Bounds of the model *)

\* statements that write, per behaviour of the session ledger
MaxWrites == 3

\* fields one SessionUpdate sets
MaxPatchFields == 2

\* messages appended
MaxMessages == 1

\* extract_intelligence calls per behaviour
MaxExtractions == 3

\* concurrent calls
MaxCalls == 3

\* operations requested of the pool, per behaviour of the pool under load
MaxRequests == 22

\* operations between their statement and their release at one time, per
\* behaviour of the pool under load
MaxReleasing == 2

\* statements that write, per behaviour of the session listing
MaxListingWrites == 4

\* messages appended, per behaviour of the message ledger
MaxAppends == 3

\* statements that write, per behaviour of the ledgers
MaxLedgerWrites == 3

\* update_session calls, per behaviour of the patched sessions
MaxPatches == 3

\* half hours that pass, per behaviour of the cache
MaxTicks == 3

----------------------------------------------------------------------------
(* Python values *)

None == << >>

Some(v) == <<v>>

\* members of the Enum classes, database/models.py
Member(e, n) == [enum |-> e, name |-> n]

\* Enum.value: the persisted string form of a member
EnumValue(m) ==
    CASE m.enum = "SessionStatus" ->
            (CASE m.name = "ACTIVE" -> "active"
               [] m.name = "COMPLETED" -> "completed"
               [] m.name = "TERMINATED" -> "terminated"
               [] m.name = "BURNED" -> "burned")
      [] m.enum = "ConversationState" -> m.name
      [] m.enum = "Channel" ->
            (CASE m.name = "SMS" -> "SMS"
               [] m.name = "WHATSAPP" -> "WhatsApp"
               [] m.name = "EMAIL" -> "Email"
               [] m.name = "CHAT" -> "Chat")
      [] m.enum = "PersonaType" -> m.name
      [] m.enum = "Sender" ->
            (CASE m.name = "SCAMMER" -> "scammer"
               [] m.name = "AGENT" -> "agent")
      [] m.enum = "ArtifactType" ->
            (CASE m.name = "UPI_ID" -> "upi_id"
               [] m.name = "BANK_ACCOUNT" -> "bank_account"
               [] m.name = "PHONE_NUMBER" -> "phone_number"
               [] m.name = "PHISHING_LINK" -> "phishing_link"
               [] m.name = "SUSPICIOUS_KEYWORD" -> "suspicious_keyword")
      [] m.enum = "TacticType" ->
            (CASE m.name = "URGENCY_PRESSURE" -> "urgency_pressure"
               [] m.name = "AUTHORITY_CLAIM" -> "authority_claim"
               [] m.name = "PAYMENT_REDIRECT" -> "payment_redirect"
               [] m.name = "ACCOUNT_THREAT" -> "account_threat"
               [] m.name = "VERIFICATION_SCAM" -> "verification_scam")
      [] m.enum = "LogLevel" -> m.name

EnumNames(e) ==
    CASE e = "SessionStatus" -> {"ACTIVE", "COMPLETED", "TERMINATED", "BURNED"}
      [] e = "ConversationState" ->
            {"UNKNOWN", "PROBING", "ENGAGING", "DRAINING", "EXITING", "TERMINATED"}
      [] e = "Channel" -> {"SMS", "WHATSAPP", "EMAIL", "CHAT"}
      [] e = "PersonaType" -> {"ELDERLY_UNCLE", "BUSY_PROFESSIONAL"}
      [] e = "Sender" -> {"SCAMMER", "AGENT"}
      [] e = "ArtifactType" ->
            {"UPI_ID", "BANK_ACCOUNT", "PHONE_NUMBER", "PHISHING_LINK",
             "SUSPICIOUS_KEYWORD"}
      [] e = "TacticType" ->
            {"URGENCY_PRESSURE", "AUTHORITY_CLAIM", "PAYMENT_REDIRECT", "ACCOUNT_THREAT",
             "VERIFICATION_SCAM"}
      [] e = "LogLevel" -> {"DEBUG", "INFO", "WARNING", "ERROR", "CRITICAL"}

\* pydantic's validation of a stored string against an Enum-typed field:
\* the member whose value is the string
ParseEnum(e, s) == CHOOSE m \in {Member(e, n) : n \in EnumNames(e)} : EnumValue(m) = s

\* How a call ends: it returns a model object, returns None, returns a list of
\* model objects, or raises.  arg is the record of the call's arguments.
Returned(op, arg, v) == [op |-> op, arg |-> arg, outcome |-> "ok", value |-> Some(v)]

Absent(op, arg) == [op |-> op, arg |-> arg, outcome |-> "none", value |-> None]

ReturnedList(op, arg, vs) == [op |-> op, arg |-> arg, outcome |-> "list", value |-> vs]

Raised(op, arg, exc) ==
    [op |-> op, arg |-> arg, outcome |-> "raise", value |-> Some([exc |-> exc])]

----------------------------------------------------------------------------
(* Sessions.  The columns SessionUpdate can write are held as Optional, the *)
(* type its fields have; the others hold plain values.                      *)

SessionIds == {"s1", "s2"}

\* SessionCreate: session_id is required, the rest have defaults
SessionCreate(sid) ==
    [session_id |-> sid,
     channel |-> Member("Channel", "SMS"),
     language |-> "en",
     locale |-> "IN",
     persona |-> Member("PersonaType", "ELDERLY_UNCLE")]

\* the column defaults of the sessions table for what the INSERT leaves out
SessionDefaults(uuid, ts) ==
    [id |-> uuid,
     initial_confidence |-> 0,
     status |-> Some("active"),
     current_state |-> Some("UNKNOWN"),
     scam_detected |-> Some(FALSE),
     final_confidence |-> None,
     exposure_risk |-> None,
     total_messages_exchanged |-> 0,
     engagement_duration_seconds |-> Some(0),
     intelligence_extracted_count |-> 0,
     created_at |-> ts,
     updated_at |-> ts,
     completed_at |-> None,
     callback_sent |-> Some(FALSE),
     callback_sent_at |-> None,
     callback_response |-> None]

\* the row the INSERT of create_session writes: its five columns and the defaults
InsertedSession(data, uuid, ts) ==
    [session_id |-> data.session_id,
     channel |-> EnumValue(data.channel),
     language |-> data.language,
     locale |-> data.locale,
     persona |-> EnumValue(data.persona)] @@ SessionDefaults(uuid, ts)

\* a column that may hold NULL, read into a field declared Optional[Enum]
\* (Message.state_at_message, StateEvolution.previous_state): None stays None
ParseOptEnum(e, v) == IF v = None THEN None ELSE Some(ParseEnum(e, v[1]))

\* the fields Session declares without Optional, among the columns an UPDATE
\* of update_session can set to NULL
RequiredFields ==
    {"status", "current_state", "scam_detected", "engagement_duration_seconds", "callback_sent"}

\* pydantic accepts the row: no required field of Session is None
SessionValid(row) == \A f \in RequiredFields : row[f] # None

\* what pydantic raises of a row it does not accept
ValidationError == [exc |-> "ValidationError"]

\* Session(**dict(row)): the Session of a row pydantic accepts, its Enum-typed
\* fields parsed from their strings, and the ValidationError of a row that
\* holds NULL in a required field
ParseSession(row) ==
    IF SessionValid(row)
    THEN [row EXCEPT !.channel = ParseEnum("Channel", row.channel),
                     !.persona = ParseEnum("PersonaType", row.persona),
                     !.status = Some(ParseEnum("SessionStatus", row.status[1])),
                     !.current_state =
                        Some(ParseEnum("ConversationState", row.current_state[1]))]
    ELSE ValidationError

\* how a call that ends with Session(**dict(row)) ends: it returns the Session,
\* or the ValidationError propagates
SessionOrRaise(op, arg, row) ==
    IF ParseSession(row) # ValidationError THEN Returned(op, arg, ParseSession(row))
    ELSE Raised(op, arg, ValidationError.exc)

SessionRows(tbl, sid) == {r \in tbl : r.session_id = sid}

\* the UNIQUE constraint on sessions.session_id: PostgreSQL rejects the INSERT
\* of a row whose session_id a stored row has
SessionIdTaken(tbl, sid) == SessionRows(tbl, sid) # {}

\* create_session on a table without the constraint: the INSERT always stores
create_session_unconstrained(tbl, data, uuid, ts) ==
    LET row == InsertedSession(data, uuid, ts)
    IN [tbl |-> tbl \cup {row},
        ret |-> SessionOrRaise("create_session", [session_data |-> data], row)]

\* create_session: INSERT ... RETURNING *, and Session(**dict(row)) on its row;
\* the exception of a rejected INSERT leaves the call as it is
create_session(tbl, data, uuid, ts) ==
    LET arg == [session_data |-> data]
    IN IF SessionIdTaken(tbl, data.session_id)
       THEN [tbl |-> tbl, ret |-> Raised("create_session", arg, "UniqueViolationError")]
       ELSE LET row == InsertedSession(data, uuid, ts)
            IN [tbl |-> tbl \cup {row},
                ret |-> SessionOrRaise("create_session", arg, row)]

\* Session(**dict(row)) if row else None, for the row set a SELECT found
SessionOrNone(op, arg, rows) ==
    IF rows = {} THEN Absent(op, arg)
    ELSE SessionOrRaise(op, arg, CHOOSE r \in rows : TRUE)

\* get_session_by_id: SELECT * FROM sessions WHERE session_id = $1
get_session_by_id(tbl, sid) ==
    SessionOrNone("get_session_by_id", [session_id |-> sid], SessionRows(tbl, sid))

\* get_session_by_uuid: SELECT * FROM sessions WHERE id = $1
get_session_by_uuid(tbl, uuid) ==
    SessionOrNone("get_session_by_uuid", [uuid |-> uuid], {r \in tbl : r.id = uuid})

\* the fields of SessionUpdate
UpdatableFields ==
    {"current_state", "status", "scam_detected", "final_confidence", "exposure_risk",
     "engagement_duration_seconds", "completed_at", "callback_sent",
     "callback_sent_at", "callback_response"}

\* a SessionUpdate built with the keyword arguments kw (a record): every field
\* defaults to None, and fields_set remembers which ones the caller gave
SessionUpdate(fields_set, kw) ==
    [fields_set |-> fields_set] @@
    [f \in UpdatableFields |-> IF f \in fields_set THEN kw[f] ELSE None]

\* a SessionUpdate whose class keeps the keyword arguments that name no field
\* (Config.extra = "allow")
SessionUpdateAllowingExtra(kw) ==
    [fields_set |-> DOMAIN kw] @@ kw @@ SessionUpdate(DOMAIN kw \cap UpdatableFields, kw)

\* SessionUpdate(**kw): the class declares no Config, so pydantic ignores the
\* keyword arguments that name no field of it
SessionUpdateOf(kw) == SessionUpdate(DOMAIN kw \cap UpdatableFields, kw)

\* updates.dict(exclude_unset=True)
UpdateDict(updates) == [f \in updates.fields_set |-> updates[f]]

\* updates.dict() without exclude_unset: every field, the unset ones as None
UpdateDictAll(updates) == [f \in UpdatableFields |-> updates[f]]

\* the fields of SessionUpdate whose values are Enum members (hasattr(value, 'value'))
EnumFields == {"current_state", "status"}

\* value.value if hasattr(value, 'value') else value
Normalize(field, value) ==
    IF field \in EnumFields /\ value # None THEN Some(EnumValue(value[1])) ELSE value

\* the UPDATE with every updatable column in its SET clause: the columns the
\* patch leaves out are written with their defaults
PatchedRowAllFields(row, update_dict) ==
    [f \in DOMAIN row |->
        IF f \in DOMAIN update_dict THEN Normalize(f, update_dict[f])
        ELSE IF f \in UpdatableFields THEN SessionDefaults(row.id, row.created_at)[f]
        ELSE row[f]]

\* UPDATE sessions SET <field = value, for each field of update_dict> on one row
PatchedRow(row, update_dict) ==
    [f \in DOMAIN row |->
        IF f \in DOMAIN update_dict THEN Normalize(f, update_dict[f]) ELSE row[f]]

\* the query arguments asyncpg can encode: callback_response is passed as the
\* dict itself, not as json.dumps of it, and the pool installs no JSON codec,
\* so a dict for the JSON column is refused (expected str, got dict) before
\* the statement runs; None is sent as NULL
Encodable(update_dict) ==
    \A f \in DOMAIN update_dict : f = "callback_response" => update_dict[f] = None

\* update_session with exclude_unset lost: every field of SessionUpdate is written
update_session_all_fields(tbl, sid, updates) ==
    LET arg == [session_id |-> sid, updates |-> updates]
        update_dict == UpdateDictAll(updates)
        hit == SessionRows(tbl, sid)
        new == {PatchedRow(r, update_dict) : r \in hit}
    IN IF ~Encodable(update_dict)
       THEN [tbl |-> tbl, ret |-> Raised("update_session", arg, "DataError")]
       ELSE IF hit = {}
       THEN [tbl |-> tbl, ret |-> Raised("update_session", arg, "TypeError")]
       ELSE [tbl |-> (tbl \ hit) \cup new,
             ret |-> SessionOrRaise("update_session", arg, CHOOSE r \in new : TRUE)]

\* update_session: an empty update_dict is answered by get_session_by_id; else
\* UPDATE sessions SET ... WHERE session_id = $n RETURNING *, which asyncpg
\* refuses with DataError, before it runs, when an argument cannot be encoded;
\* and Session(**dict(row)) on its row: dict(None) raises TypeError when no row
\* matched
update_session(tbl, sid, updates) ==
    LET arg == [session_id |-> sid, updates |-> updates]
        update_dict == UpdateDict(updates)
        hit == SessionRows(tbl, sid)
        new == {PatchedRow(r, update_dict) : r \in hit}
    IN IF update_dict = << >>
       THEN [tbl |-> tbl,
             ret |-> [get_session_by_id(tbl, sid) EXCEPT !.op = "update_session", !.arg = arg]]
       ELSE IF ~Encodable(update_dict)
       THEN [tbl |-> tbl, ret |-> Raised("update_session", arg, "DataError")]
       ELSE IF hit = {}
       THEN [tbl |-> tbl, ret |-> Raised("update_session", arg, "TypeError")]
       ELSE [tbl |-> (tbl \ hit) \cup new,
             ret |-> SessionOrRaise("update_session", arg, CHOOSE r \in new : TRUE)]

----------------------------------------------------------------------------
(* Messages *)

\* MessageCreate: the fields a caller gives; the Optional ones default to None and
\* timestamp to utcnow
MessageCreate(session_uuid, sender, turn_number, ts) ==
    [session_id |-> session_uuid,
     sender |-> sender,
     text |-> "text",
     turn_number |-> turn_number,
     timestamp |-> ts,
     response_delay_seconds |-> None,
     raw_llm_response |-> None,
     final_response |-> None,
     state_at_message |-> None,
     confidence_at_message |-> None,
     exposure_risk_at_message |-> None]

\* the row the INSERT of create_message writes; id and created_at are column defaults
InsertedMessage(data, uuid, ts) ==
    [id |-> uuid,
     session_id |-> data.session_id,
     sender |-> EnumValue(data.sender),
     text |-> data.text,
     turn_number |-> data.turn_number,
     timestamp |-> data.timestamp,
     response_delay_seconds |-> data.response_delay_seconds,
     raw_llm_response |-> data.raw_llm_response,
     final_response |-> data.final_response,
     state_at_message |->
        IF data.state_at_message # None
        THEN Some(EnumValue(data.state_at_message[1])) ELSE None,
     confidence_at_message |-> data.confidence_at_message,
     exposure_risk_at_message |-> data.exposure_risk_at_message,
     created_at |-> ts]

\* Message(**dict(row))
ParseMessage(row) ==
    [row EXCEPT !.sender = ParseEnum("Sender", row.sender),
                !.state_at_message = ParseOptEnum("ConversationState", row.state_at_message)]

\* create_message writing one row per (session_id, turn_number): the row stored
\* under the pair is replaced
create_message_replacing(tbl, data, uuid, ts) ==
    LET row == InsertedMessage(data, uuid, ts)
        old == {r \in tbl : r.session_id = row.session_id /\ r.turn_number = row.turn_number}
    IN [tbl |-> (tbl \ old) \cup {row},
        ret |-> Returned("create_message", [message_data |-> data], ParseMessage(row))]

\* create_message numbering the turn itself: the row carries the turn after the
\* highest one its session holds
create_message_next_turn(tbl, data, uuid, ts) ==
    LET own == {r.turn_number : r \in {q \in tbl : q.session_id = data.session_id}}
        next == IF own = {} THEN 1 ELSE 1 + CHOOSE t \in own : \A u \in own : u <= t
        row == [InsertedMessage(data, uuid, ts) EXCEPT !.turn_number = next]
    IN [tbl |-> tbl \cup {row},
        ret |-> Returned("create_message", [message_data |-> data], ParseMessage(row))]

\* create_message: INSERT INTO messages ... RETURNING *
create_message(tbl, data, uuid, ts) ==
    LET row == InsertedMessage(data, uuid, ts)
    IN [tbl |-> tbl \cup {row},
        ret |-> Returned("create_message", [message_data |-> data], ParseMessage(row))]

\* the SELECT with ORDER BY created_at DESC: the agent row inserted last
LastAgentRowsAsInserted(tbl, session_uuid) ==
    LET hit == {r \in tbl : r.session_id = session_uuid /\ r.sender = "agent"}
    IN {r \in hit : \A q \in hit : q.created_at <= r.created_at}

\* the rows get_last_agent_message's SELECT may yield: WHERE session_id = $1 AND
\* sender = 'agent' ORDER BY turn_number DESC LIMIT 1 (any of the rows that share
\* the highest turn_number)
LastAgentRows(tbl, session_uuid) ==
    LET hit == {r \in tbl : r.session_id = session_uuid /\ r.sender = "agent"}
    IN {r \in hit : \A q \in hit : q.turn_number <= r.turn_number}

\* get_last_agent_message: Message(**dict(row)) if row else None, for each row
\* the SELECT may yield
get_last_agent_message(tbl, session_uuid) ==
    LET arg == [session_uuid |-> session_uuid]
        rows == LastAgentRows(tbl, session_uuid)
    IN IF rows = {} THEN {Absent("get_last_agent_message", arg)}
       ELSE {Returned("get_last_agent_message", arg, ParseMessage(r)) : r \in rows}

----------------------------------------------------------------------------
(* Extracted intelligence *)

\* json.dumps of a dict: a text, which is not the dict
JsonDumps(d) == [json |-> d]

\* the dicts callers pass as metadata: a dict is the sequence of its items
EmptyDict == << >>

SourceDict == << <<"source", "sms">> >>

\* IntelligenceCreate with its defaults
IntelligenceDefaults ==
    [extraction_method |-> "regex",
     confirmed |-> FALSE,
     confirmation_count |-> 1,
     confidence_score |-> 50,
     context_snippet |-> None,
     metadata |-> None]

\* the candidates callers pass: the default one, and two that override the
\* defaulted fields
IntelligenceVariants ==
    {IntelligenceDefaults,
     [extraction_method |-> "llm", confirmed |-> TRUE, confirmation_count |-> 1,
      confidence_score |-> 90, context_snippet |-> Some("snippet"),
      metadata |-> Some(EmptyDict)],
     [extraction_method |-> "llm", confirmed |-> FALSE, confirmation_count |-> 3,
      confidence_score |-> 90, context_snippet |-> None,
      metadata |-> Some(SourceDict)]}

IntelligenceCreate(session_uuid, type, value, message_uuid, turn, v) ==
    [session_id |-> session_uuid,
     artifact_type |-> type,
     artifact_value |-> value,
     extracted_from_message_id |-> message_uuid,
     extracted_at_turn |-> turn] @@ v

\* the row the INSERT of extract_intelligence proposes; id, first_seen_at and
\* last_seen_at are column defaults.  metadata: json.dumps(...) if truthy else None
InsertedIntel(data, uuid, ts) ==
    [id |-> uuid,
     session_id |-> data.session_id,
     artifact_type |-> EnumValue(data.artifact_type),
     artifact_value |-> data.artifact_value,
     extracted_from_message_id |-> data.extracted_from_message_id,
     extracted_at_turn |-> data.extracted_at_turn,
     extraction_method |-> data.extraction_method,
     confirmed |-> data.confirmed,
     confirmation_count |-> data.confirmation_count,
     confidence_score |-> data.confidence_score,
     context_snippet |-> data.context_snippet,
     metadata |->
        IF data.metadata # None /\ data.metadata[1] # EmptyDict
        THEN Some(JsonDumps(data.metadata[1])) ELSE None,
     first_seen_at |-> ts,
     last_seen_at |-> ts]

\* a conflict target that leaves the session out: (artifact_type, artifact_value)
IntelKeyWithoutSession(r) == <<0, r.artifact_type, r.artifact_value>>

\* the natural key: (session_id, artifact_type, artifact_value)
IntelKey(r) == <<r.session_id, r.artifact_type, r.artifact_value>>

\* the DO UPDATE without last_seen_at = CURRENT_TIMESTAMP
MergedIntelStale(old, ts) ==
    [old EXCEPT !.confirmation_count = old.confirmation_count + 1,
                !.confirmed = TRUE]

\* the DO UPDATE without confirmed = true
MergedIntelCountOnly(old, ts) ==
    [old EXCEPT !.confirmation_count = old.confirmation_count + 1,
                !.last_seen_at = ts]

\* DO UPDATE SET confirmation_count = extracted_intelligence.confirmation_count + 1,
\* confirmed = true, last_seen_at = CURRENT_TIMESTAMP
MergedIntel(old, ts) ==
    [old EXCEPT !.confirmation_count = old.confirmation_count + 1,
                !.confirmed = TRUE,
                !.last_seen_at = ts]

\* ExtractedIntelligence(**dict(row)): metadata is typed Optional[Dict[str, Any]]
\* and has no validator, so a row whose metadata column holds text is rejected
IntelValid(row) == row.metadata = None

ParseIntel(row) == [row EXCEPT !.artifact_type = ParseEnum("ArtifactType", row.artifact_type)]

IntelOrRaise(op, arg, row) ==
    IF IntelValid(row) THEN Returned(op, arg, ParseIntel(row))
    ELSE Raised(op, arg, "ValidationError")

\* the INSERT without its ON CONFLICT clause, on a table without the unique
\* constraint
UpsertIntelInsertOnly(tbl, data, uuid, ts) ==
    LET new == InsertedIntel(data, uuid, ts)
    IN [tbl |-> tbl \cup {new}, row |-> new]

\* the statement of extract_intelligence: INSERT ... ON CONFLICT (session_id,
\* artifact_type, artifact_value) DO UPDATE ... RETURNING *, as one atomic step.
\* Yields the table and the row RETURNING hands back.
UpsertIntel(tbl, data, uuid, ts) ==
    LET new == InsertedIntel(data, uuid, ts)
        hit == {r \in tbl : IntelKey(r) = IntelKey(new)}
    IN IF hit = {}
       THEN [tbl |-> tbl \cup {new}, row |-> new]
       ELSE LET old == CHOOSE r \in hit : TRUE
            IN [tbl |-> (tbl \ {old}) \cup {MergedIntel(old, ts)},
                row |-> MergedIntel(old, ts)]

\* extract_intelligence: the statement, then
\* ExtractedIntelligence(**dict(row)) if row else None
extract_intelligence(tbl, data, uuid, ts) ==
    LET u == UpsertIntel(tbl, data, uuid, ts)
    IN [tbl |-> u.tbl,
        ret |-> IntelOrRaise("extract_intelligence", [intel_data |-> data], u.row)]

RECURSIVE SeqsOf(_)
\* the orders in which a SELECT may return a set of rows
SeqsOf(rows) ==
    IF rows = {} THEN {<< >>}
    ELSE UNION {{<<r>> \o s : s \in SeqsOf(rows \ {r})} : r \in rows}

\* ORDER BY confirmation_count DESC: rows with equal counts come in any order
OrderedByCountDesc(rows) ==
    {s \in SeqsOf(rows) :
        \A i \in 1..Len(s) - 1 : s[i].confirmation_count >= s[i + 1].confirmation_count}

\* [ExtractedIntelligence(**dict(row)) for row in rows]
IntelListOrRaise(op, arg, rows) ==
    IF \A i \in 1..Len(rows) : IntelValid(rows[i])
    THEN ReturnedList(op, arg, [i \in 1..Len(rows) |-> ParseIntel(rows[i])])
    ELSE Raised(op, arg, "ValidationError")

\* the SELECT without AND confirmed = true
get_confirmed_intelligence_unfiltered(tbl, session_uuid) ==
    {IntelListOrRaise("get_confirmed_intelligence", [session_uuid |-> session_uuid], s) :
        s \in OrderedByCountDesc({r \in tbl : r.session_id = session_uuid})}

\* get_confirmed_intelligence: SELECT ... WHERE session_id = $1 AND confirmed = true
\* ORDER BY confirmation_count DESC; every result the statement may give
get_confirmed_intelligence(tbl, session_uuid) ==
    {IntelListOrRaise("get_confirmed_intelligence", [session_uuid |-> session_uuid], s) :
        s \in OrderedByCountDesc({r \in tbl : r.session_id = session_uuid /\ r.confirmed})}

----------------------------------------------------------------------------
(* Listings of sessions *)

\* ORDER BY created_at DESC: rows created at the same instant come in any order
OrderedByCreatedDesc(rows) ==
    {s \in SeqsOf(rows) : \A i \in 1..Len(s) - 1 : s[i].created_at >= s[i + 1].created_at}

\* [Session(**dict(row)) for row in rows]: a row pydantic rejects ends the
\* comprehension with its ValidationError
SessionList(op, arg, rows) ==
    IF \A i \in 1..Len(rows) : SessionValid(rows[i])
    THEN ReturnedList(op, arg, [i \in 1..Len(rows) |-> ParseSession(rows[i])])
    ELSE Raised(op, arg, "ValidationError")

\* get_active_sessions: SELECT * FROM sessions WHERE status = 'active'
\* ORDER BY created_at DESC; every result the statement may give
get_active_sessions(tbl) ==
    {SessionList("get_active_sessions", [none |-> TRUE], s) :
        s \in OrderedByCreatedDesc({r \in tbl : r.status = Some("active")})}

----------------------------------------------------------------------------
(* Listings of messages *)

\* get_conversation_history: the default of its parameter limit
DefaultLimit == 50

\* ORDER BY turn_number ASC: rows that share a turn_number come in any order
OrderedByTurnAsc(rows) ==
    {s \in SeqsOf(rows) : \A i \in 1..Len(s) - 1 : s[i].turn_number <= s[i + 1].turn_number}

\* ORDER BY created_at ASC: the order of insertion
OrderedByInsertion(rows) ==
    {s \in SeqsOf(rows) : \A i \in 1..Len(s) - 1 : s[i].created_at <= s[i + 1].created_at}

\* LIMIT $2: the first `limit` rows
Limit(s, limit) == SubSeq(s, 1, IF Len(s) < limit THEN Len(s) ELSE limit)

\* [Message(**dict(row)) for row in rows]
MessageList(op, arg, rows) ==
    ReturnedList(op, arg, [i \in 1..Len(rows) |-> ParseMessage(rows[i])])

\* the SELECT without an ORDER BY on turn_number: rows in their insertion order
get_conversation_history_as_inserted(tbl, session_uuid, limit) ==
    {MessageList("get_conversation_history",
                 [session_uuid |-> session_uuid, limit |-> limit], Limit(s, limit)) :
        s \in OrderedByInsertion({r \in tbl : r.session_id = session_uuid})}

\* get_conversation_history: SELECT * FROM messages WHERE session_id = $1
\* ORDER BY turn_number ASC LIMIT $2; every result the statement may give
get_conversation_history(tbl, session_uuid, limit) ==
    {MessageList("get_conversation_history",
                 [session_uuid |-> session_uuid, limit |-> limit], Limit(s, limit)) :
        s \in OrderedByTurnAsc({r \in tbl : r.session_id = session_uuid})}

----------------------------------------------------------------------------
(* State evolution, tactics and system logs.  A column that holds JSON comes *)
(* back from asyncpg as text.  The value a dict entry or a keyword argument  *)
(* holds at run time is tagged with its Python type.                         *)

\* json.loads of a text json.dumps wrote
JsonLoads(t) == t.json

PyNone == [type |-> "NoneType"]

PyStr(t) == [type |-> "str", text |-> t]

PyList(l) == [type |-> "list", items |-> l]

\* the run-time value of an Optional[List[str]] field
PyOfList(v) == IF v = None THEN PyNone ELSE PyList(v[1])

\* the run-time value of a nullable JSON column of a fetched row
PyOfColumn(v) == IF v = None THEN PyNone ELSE PyStr(v[1])

\* Python's truth test: None and the empty list are false; the text json.dumps
\* writes is never empty
Truthy(pv) ==
    CASE pv.type = "NoneType" -> FALSE
      [] pv.type = "str" -> TRUE
      [] pv.type = "list" -> pv.items # << >>

\* StateEvolutionCreate: the required fields and signals_detected as the caller
\* gives them, the other Optional fields at their default None
StateEvolutionCreate(session_uuid, message_uuid, turn_number, signals) ==
    [session_id |-> session_uuid,
     message_id |-> message_uuid,
     turn_number |-> turn_number,
     previous_state |-> None,
     current_state |-> Member("ConversationState", "PROBING"),
     state_transition_occurred |-> FALSE,
     turns_in_current_state |-> 1,
     previous_confidence |-> None,
     current_confidence |-> 50,
     confidence_delta |-> None,
     confidence_trend |-> None,
     exposure_risk |-> 10,
     exposure_delta |-> None,
     tone_confusion |-> None,
     tone_anxiety |-> None,
     tone_urgency |-> None,
     tone_compliance |-> None,
     tone_cognitive_load |-> None,
     drift_rate |-> None,
     initiative |-> None,
     signals_detected |-> signals]

\* the row the INSERT of record_state_evolution writes: its last parameter is
\* json.dumps(signals_detected) if signals_detected is not None else json.dumps([])
InsertedEvolution(data, uuid, ts) ==
    [id |-> uuid,
     session_id |-> data.session_id,
     message_id |-> data.message_id,
     turn_number |-> data.turn_number,
     previous_state |->
        IF data.previous_state # None
        THEN Some(EnumValue(data.previous_state[1])) ELSE None,
     current_state |-> EnumValue(data.current_state),
     state_transition_occurred |-> data.state_transition_occurred,
     turns_in_current_state |-> data.turns_in_current_state,
     previous_confidence |-> data.previous_confidence,
     current_confidence |-> data.current_confidence,
     confidence_delta |-> data.confidence_delta,
     confidence_trend |-> data.confidence_trend,
     exposure_risk |-> data.exposure_risk,
     exposure_delta |-> data.exposure_delta,
     tone_confusion |-> data.tone_confusion,
     tone_anxiety |-> data.tone_anxiety,
     tone_urgency |-> data.tone_urgency,
     tone_compliance |-> data.tone_compliance,
     tone_cognitive_load |-> data.tone_cognitive_load,
     drift_rate |-> data.drift_rate,
     initiative |-> data.initiative,
     signals_detected |->
        IF data.signals_detected # None
        THEN Some(JsonDumps(data.signals_detected[1])) ELSE Some(JsonDumps(<< >>)),
     timestamp |-> ts]

\* StateEvolution.parse_signals, the mode="before" validator of signals_detected
parse_signals(v) ==
    CASE v.type = "NoneType" -> << >>
      [] v.type = "str" -> JsonLoads(v.text)
      [] v.type = "list" -> v.items

\* StateEvolution(**data), data being the row with signals_detected holding v
ParseEvolution(row, v) ==
    [row EXCEPT !.previous_state = ParseOptEnum("ConversationState", row.previous_state),
                !.current_state = ParseEnum("ConversationState", row.current_state),
                !.signals_detected = Some(parse_signals(v))]

\* if data.get(key): data[key] = json.loads(data[key])
LoadedIfTruthy(v) == IF Truthy(v) THEN PyList(JsonLoads(v.text)) ELSE v

\* record_state_evolution written the way record_tactic is: NULL is stored for
\* an absent or empty list and the model has no validator
record_state_evolution_like_tactic(tbl, data, uuid, ts) ==
    LET given == PyOfList(data.signals_detected)
        row == [InsertedEvolution(data, uuid, ts) EXCEPT
                    !.signals_detected =
                        IF Truthy(given) THEN Some(JsonDumps(given.items)) ELSE None]
        v == LoadedIfTruthy(PyOfColumn(row.signals_detected))
    IN [tbl |-> tbl \cup {row},
        ret |-> Returned("record_state_evolution", [evolution_data |-> data],
                         [ParseEvolution(row, v) EXCEPT
                            !.signals_detected =
                                IF v.type = "list" THEN Some(v.items) ELSE None])]

\* record_state_evolution: INSERT INTO state_evolution ... RETURNING *, the
\* signals_detected text of the row loaded, and StateEvolution(**data)
record_state_evolution(tbl, data, uuid, ts) ==
    LET row == InsertedEvolution(data, uuid, ts)
        v == LoadedIfTruthy(PyOfColumn(row.signals_detected))
    IN [tbl |-> tbl \cup {row},
        ret |-> Returned("record_state_evolution", [evolution_data |-> data],
                         ParseEvolution(row, v))]

\* get_state_history: SELECT * FROM state_evolution WHERE session_id = $1
\* ORDER BY turn_number ASC, and [StateEvolution(**dict(row)) for row in rows];
\* every result the statement may give
get_state_history(tbl, session_uuid) ==
    {ReturnedList("get_state_history", [session_uuid |-> session_uuid],
                  [i \in 1..Len(s) |-> ParseEvolution(s[i], PyOfColumn(s[i].signals_detected))]) :
        s \in OrderedByTurnAsc({r \in tbl : r.session_id = session_uuid})}

\* TacticCreate: threat_level defaults to "medium", tactic_description to None
TacticCreate(session_uuid, turn, keywords) ==
    [session_id |-> session_uuid,
     tactic_type |-> Member("TacticType", "URGENCY_PRESSURE"),
     tactic_description |-> None,
     detected_at_turn |-> turn,
     message_text |-> "text",
     keywords_used |-> keywords,
     threat_level |-> "medium"]

\* the row the INSERT of record_tactic writes: its sixth parameter is
\* json.dumps(keywords_used) if keywords_used else None
InsertedTactic(data, uuid, ts) ==
    [id |-> uuid,
     session_id |-> data.session_id,
     tactic_type |-> EnumValue(data.tactic_type),
     tactic_description |-> data.tactic_description,
     detected_at_turn |-> data.detected_at_turn,
     message_text |-> data.message_text,
     keywords_used |->
        IF Truthy(PyOfList(data.keywords_used))
        THEN Some(JsonDumps(data.keywords_used[1])) ELSE None,
     threat_level |-> data.threat_level,
     timestamp |-> ts]

\* ScammerTactic(**data): keywords_used is Optional[List[str]] and has no
\* validator, so None stays None, a list stays the list, and a text is rejected
TacticOrRaise(op, arg, row, v) ==
    IF v.type = "str" THEN Raised(op, arg, "ValidationError")
    ELSE Returned(op, arg,
            [row EXCEPT !.tactic_type = ParseEnum("TacticType", row.tactic_type),
                        !.keywords_used = IF v.type = "list" THEN Some(v.items) ELSE None])

\* record_tactic: INSERT INTO scammer_tactics ... RETURNING *, the keywords_used
\* text of the row loaded if there is one, and ScammerTactic(**data)
record_tactic(tbl, data, uuid, ts) ==
    LET row == InsertedTactic(data, uuid, ts)
        v == LoadedIfTruthy(PyOfColumn(row.keywords_used))
    IN [tbl |-> tbl \cup {row},
        ret |-> TacticOrRaise("record_tactic", [tactic_data |-> data], row, v)]

\* a value json.dumps has no encoder for: a datetime
ADatetime == "datetime.datetime(2026, 1, 1, 0, 0)"

\* a details dict that holds one
DatetimeDict == << <<"at", ADatetime>> >>

\* json.dumps raises TypeError on a dict that holds a value it cannot encode
CanDump(d) == \A i \in 1..Len(d) : d[i][2] # ADatetime

\* SystemLogCreate: session_id defaults to None
SystemLogCreate(details) ==
    [session_id |-> None,
     log_level |-> Member("LogLevel", "INFO"),
     component |-> "agent",
     event_type |-> "turn",
     message |-> "text",
     details |-> details]

\* the row the INSERT of log writes: its last parameter is
\* json.dumps(details) if details else None
InsertedLog(data, uuid, ts) ==
    [id |-> uuid,
     session_id |-> data.session_id,
     log_level |-> EnumValue(data.log_level),
     component |-> data.component,
     event_type |-> data.event_type,
     message |-> data.message,
     details |->
        IF data.details # None /\ data.details[1] # EmptyDict
        THEN Some(JsonDumps(data.details[1])) ELSE None,
     timestamp |-> ts]

\* log: INSERT INTO system_logs ..., returning nothing; the exception of
\* json.dumps, raised while the parameters are built, leaves the call as it is
log(tbl, data, uuid, ts) ==
    LET arg == [log_data |-> data]
    IN IF data.details # None /\ data.details[1] # EmptyDict /\ ~CanDump(data.details[1])
       THEN [tbl |-> tbl, ret |-> Raised("log", arg, "TypeError")]
       ELSE [tbl |-> tbl \cup {InsertedLog(data, uuid, ts)}, ret |-> Absent("log", arg)]

----------------------------------------------------------------------------
(* The Redis cache.  A key holds a text and the instant it expires at; Redis *)
(* drops the key when that instant comes.                                    *)

\* RedisCache.__init__: self.session_ttl, in seconds
session_ttl == 3600

\* RedisCache._session_key
session_key(session_id) == "session:" \o session_id

\* RedisCache._state_key
state_key(session_id) == "state:" \o session_id

\* a SET that keeps the TTL of a key Redis holds (SET ... KEEPTTL)
set_keepttl(kv, key, ttl, value, t) ==
    {e \in kv : e.key # key} \cup
    {[key |-> key, value |-> value,
      expires_at |-> IF \E e \in kv : e.key = key
                     THEN (CHOOSE e \in kv : e.key = key).expires_at ELSE t + ttl]}

\* redis.setex(key, ttl, value) at instant t
setex(kv, key, ttl, value, t) ==
    {e \in kv : e.key # key} \cup {[key |-> key, value |-> value, expires_at |-> t + ttl]}

\* redis.get(key): the text the key holds, or None
get(kv, key) ==
    IF \E e \in kv : e.key = key THEN Some((CHOOSE e \in kv : e.key = key).value) ELSE None

\* redis.delete(*keys)
delete(kv, keys) == {e \in kv : e.key \notin keys}

\* an expire that creates the key it does not find, out of a value Redis holds
expire_creating(kv, key, ttl, t) ==
    {e \in kv : e.key # key} \cup
    {[key |-> key, value |-> e.value, expires_at |-> t + ttl] :
        e \in IF \E x \in kv : x.key = key THEN {x \in kv : x.key = key} ELSE kv}

\* redis.expire(key, ttl) at instant t: a key Redis holds expires ttl from t; a
\* key it does not hold is not created
expire(kv, key, ttl, t) ==
    {IF e.key = key THEN [e EXCEPT !.expires_at = t + ttl] ELSE e : e \in kv}

\* the keys whose instant has come are gone at instant t
Expired(kv, t) == {e \in kv : t < e.expires_at}

\* cache_session with twice the TTL
cache_session_twice_ttl(kv, session_id, session_data, t) ==
    setex(kv, session_key(session_id), 2 * session_ttl, JsonDumps(session_data), t)

\* cache_session: setex(key, self.session_ttl, json.dumps(session_data))
cache_session(kv, session_id, session_data, t) ==
    setex(kv, session_key(session_id), session_ttl, JsonDumps(session_data), t)

\* json.loads(data) if data else None, for what redis.get gave
CachedOrNone(op, arg, data) ==
    IF data # None THEN Returned(op, arg, JsonLoads(data[1])) ELSE Absent(op, arg)

\* get_cached_session
get_cached_session(kv, session_id) ==
    CachedOrNone("get_cached_session", [session_id |-> session_id],
                 get(kv, session_key(session_id)))

\* cache_state: setex(key, self.session_ttl, json.dumps(state_data))
cache_state(kv, session_id, state_data, t) ==
    setex(kv, state_key(session_id), session_ttl, JsonDumps(state_data), t)

\* get_cached_state
get_cached_state(kv, session_id) ==
    CachedOrNone("get_cached_state", [session_id |-> session_id],
                 get(kv, state_key(session_id)))

\* invalidate_session deleting the session key alone
invalidate_session_key_only(kv, session_id) == delete(kv, {session_key(session_id)})

\* invalidate_session: redis.delete(session_key, state_key)
invalidate_session(kv, session_id) ==
    delete(kv, {session_key(session_id), state_key(session_id)})

\* the session_data a caller caches: the stored session as a dict of JSON values
SessionSnapshot(row) ==
    [session_id |-> row.session_id,
     status |-> row.status[1],
     current_state |-> row.current_state[1]]

\* the state_data a caller caches: the conversation state of the stored session
StateSnapshot(row) ==
    [current_state |-> row.current_state[1],
     scam_detected |-> row.scam_detected[1]]

\* a get_session_by_id that answers from the cached snapshot when Redis holds one
GetSessionByIdThroughCache ==
    /\ \E sid \in SessionIds :
        LET read == get_session_by_id(sessions, sid)
            data == get(redis, session_key(sid))
        IN ret' = IF data = None \/ read.outcome # "ok" THEN read
                  ELSE [read EXCEPT
                            !.value[1].status =
                                Some(ParseEnum("SessionStatus", JsonLoads(data[1]).status)),
                            !.value[1].current_state =
                                Some(ParseEnum("ConversationState",
                                               JsonLoads(data[1]).current_state))]
    /\ UNCHANGED <<sessions, messages, intel, now, nextId, pc, held, calls, ledgerVars, cacheVars,
                   poolVars>>

----------------------------------------------------------------------------
(* The connection pool.  asyncpg lends at most max_size connections; a        *)
(* pool.acquire() beyond them waits, with no timeout, until one is handed     *)
(* back.  An operation of the service is in flight from its call to its       *)
(* return or raise; what the pool sees of it is how many connections it       *)
(* holds and how many more it will ask for before it can finish.              *)

\* the operations the load on the pool is made of: create_session, whose
\* INSERT writes the sessions table or is refused, and update_session with an
\* empty patch, answered by get_session_by_id and its SELECT
PoolOps == {"create_session", "update_session_empty"}

\* an update_session that enters its `async with` block before it tests the
\* patch: with an empty patch it asks get_session_by_id for a second connection
\* while it holds the first
ConnectionsNeededNested(op) == IF op = "update_session_empty" THEN 2 ELSE 1

\* the connections an operation acquires, one inside the other, before it can
\* finish: every operation has one `async with self.pool.acquire()` block, and
\* update_session hands an empty patch to get_session_by_id before it enters its own
ConnectionsNeeded(op) == 1

\* what the pool sees of an operation in flight
OpState(holds, more) == [holds |-> holds, more |-> more]

\* an operation in flight holds a connection or awaits one, and none asks for
\* more than two in all
OpStates ==
    {st \in {OpState(h, n) : h \in 0..2, n \in 0..2} : st.holds + st.more \in 1..2}

\* an operation awaiting its only connection, and one that runs its statement on it
Waiting == OpState(0, 1)

Running == OpState(1, 0)

\* an `async with` block that keeps its connection when the statement raises
ReleasedOnReturn(outcome, holds) == IF outcome = "raise" THEN 0 ELSE holds

\* the connections handed back when the operation leaves its `async with`
\* block, by return or by raise
Released(outcome, holds) == holds

\* operations in flight: those of every state of OpStates
InFlight(load) ==
    load[OpState(0, 1)] + load[OpState(1, 0)]
    + load[OpState(0, 2)] + load[OpState(1, 1)] + load[OpState(2, 0)]

----------------------------------------------------------------------------
(* The session ledger: sessions and messages, one call at a time *)

Procs == 1..MaxCalls

\* the natural keys of the model's candidates
Keys == {1, 2} \X {"upi_id", "phone_number"} \X {"9876543210"}

\* n: the calls executed for the key; plain: every one carried the default candidate
NoCalls == [k \in Keys |-> [n |-> 0, plain |-> TRUE]]

Idle == [at |-> "idle"]

\* no durable record has changed and no Redis key has been written
NoChange == [sid \in SessionIds |-> 0]

NoTouch == {}

NoLoad == [st \in OpStates |-> 0]

\* no statement has run whose operation is still in its block
NoPending == EmptyBag

\* what an operation keeps between its statement and leaving its block: how
\* the call will end, and the connections it holds
Result(r, holds) == [ret |-> r, holds |-> holds]

\* the operations holding that many connections whose statement has run
Releasing(results, holds) ==
    BagCardinality([res \in {x \in BagToSet(results) : x.holds = holds} |-> results[res]])

NoCall == [op |-> "none", arg |-> [none |-> TRUE], outcome |-> "none", value |-> None]

Init ==
    /\ sessions = {}
    /\ messages = {}
    /\ intel = {}
    /\ now = 0
    /\ nextId = 1
    /\ ret = NoCall
    /\ pc = [p \in Procs |-> Idle]
    /\ held = {}
    /\ calls = NoCalls
    /\ evolution = {}
    /\ tactics = {}
    /\ logs = {}
    /\ recorded = {}
    /\ redis = {}
    /\ changed = NoChange
    /\ touched = NoTouch
    /\ inflight = NoLoad
    /\ lent = 0
    /\ finished = 0
    /\ pending = NoPending

\* the values callers give the fields of a SessionUpdate
StatusValues == {Some(Member("SessionStatus", "ACTIVE")), Some(Member("SessionStatus", "COMPLETED"))}

StateValues == {Some(Member("ConversationState", "PROBING"))}

ConfidenceValues == {None, Some(80)}

PatchFields == {"status", "current_state", "final_confidence", "completed_at", "scam_detected"}

\* SessionUpdate(scam_detected=None): a field that Session requires, given as
\* None, is set and is written as NULL
NullingPatches == {SessionUpdate({"scam_detected"}, [scam_detected |-> None])}

\* SessionUpdate(callback_sent=True, callback_response={'source': 'sms'}): the
\* outcome of the final callback, its response given as a dict
CallbackPatches ==
    {SessionUpdate({"callback_sent", "callback_response"},
                   [callback_sent |-> Some(TRUE), callback_response |-> Some(SourceDict)])}

\* the SessionUpdate objects of at most MaxPatchFields fields, at instant ts
Patches(ts) ==
    {SessionUpdate(fs, [status |-> st, current_state |-> cs, final_confidence |-> fc,
                        completed_at |-> Some(ts), scam_detected |-> Some(TRUE)]) :
        fs \in {x \in SUBSET PatchFields : Cardinality(x) <= MaxPatchFields},
        st \in StatusValues, cs \in StateValues, fc \in ConfidenceValues}
    \cup NullingPatches \cup CallbackPatches

CreateSession ==
    /\ now < MaxWrites
    /\ \E sid \in SessionIds :
        LET r == create_session(sessions, SessionCreate(sid), nextId, now)
        IN /\ sessions' = r.tbl
           /\ ret' = r.ret
    /\ now' = now + 1
    /\ nextId' = nextId + 1
    /\ UNCHANGED <<messages, intel, pc, held, calls, ledgerVars, cacheVars, poolVars>>

GetSessionById ==
    /\ \E sid \in SessionIds : ret' = get_session_by_id(sessions, sid)
    /\ UNCHANGED <<sessions, messages, intel, now, nextId, pc, held, calls, ledgerVars, cacheVars,
                   poolVars>>

GetSessionByUuid ==
    /\ \E uuid \in 1..nextId : ret' = get_session_by_uuid(sessions, uuid)
    /\ UNCHANGED <<sessions, messages, intel, now, nextId, pc, held, calls, ledgerVars, cacheVars,
                   poolVars>>

UpdateSession ==
    /\ now < MaxWrites
    /\ \E sid \in SessionIds, updates \in Patches(now) :
        LET r == update_session(sessions, sid, updates)
        IN /\ sessions' = r.tbl
           /\ ret' = r.ret
    /\ now' = now + 1
    /\ UNCHANGED <<messages, intel, nextId, pc, held, calls, ledgerVars, cacheVars, poolVars>>

CreateMessage ==
    /\ now < MaxWrites
    /\ Cardinality(messages) < MaxMessages
    /\ \E s \in sessions, sender \in {Member("Sender", "SCAMMER"), Member("Sender", "AGENT")} :
        LET r == create_message(messages, MessageCreate(s.id, sender, 1, now), nextId, now)
        IN /\ messages' = r.tbl
           /\ ret' = r.ret
    /\ now' = now + 1
    /\ nextId' = nextId + 1
    /\ UNCHANGED <<sessions, intel, pc, held, calls, ledgerVars, cacheVars, poolVars>>

GetLastAgentMessage ==
    /\ \E uuid \in 1..nextId : ret' \in get_last_agent_message(messages, uuid)
    /\ UNCHANGED <<sessions, messages, intel, now, nextId, pc, held, calls, ledgerVars, cacheVars,
                   poolVars>>

Next ==
    \/ CreateSession
    \/ GetSessionById
    \/ GetSessionByUuid
    \/ UpdateSession
    \/ CreateMessage
    \/ GetLastAgentMessage

Spec == Init /\ [][Next]_vars

----------------------------------------------------------------------------
(* The intelligence deduplicator, one call at a time, on a ledger that holds *)
(* two sessions and their messages                                          *)

SeedSessions ==
    create_session(create_session({}, SessionCreate("s1"), 1, -5).tbl,
                   SessionCreate("s2"), 2, -4).tbl

SeedMessages ==
    LET m1 == create_message({}, MessageCreate(1, Member("Sender", "SCAMMER"), 1, -3), 3, -3).tbl
        m2 == create_message(m1, MessageCreate(1, Member("Sender", "SCAMMER"), 2, -2), 4, -2).tbl
    IN create_message(m2, MessageCreate(2, Member("Sender", "SCAMMER"), 1, -1), 5, -1).tbl

InitIntel ==
    /\ sessions = SeedSessions
    /\ messages = SeedMessages
    /\ intel = {}
    /\ now = 0
    /\ nextId = 6
    /\ ret = NoCall
    /\ pc = [p \in Procs |-> Idle]
    /\ held = {}
    /\ calls = NoCalls
    /\ evolution = {}
    /\ tactics = {}
    /\ logs = {}
    /\ recorded = {}
    /\ redis = {}
    /\ changed = NoChange
    /\ touched = NoTouch
    /\ inflight = NoLoad
    /\ lent = 0
    /\ finished = 0
    /\ pending = NoPending

ArtifactTypes == {Member("ArtifactType", "UPI_ID"), Member("ArtifactType", "PHONE_NUMBER")}

\* the candidates a caller may build for a message of the ledger
Candidates ==
    {IntelligenceCreate(m.session_id, type, "9876543210", m.id, m.turn_number, v) :
        m \in messages, type \in ArtifactTypes, v \in IntelligenceVariants}

\* the key a candidate is stored under
CandidateKey(data) == <<data.session_id, EnumValue(data.artifact_type), data.artifact_value>>

IsDefault(data) == \A f \in DOMAIN IntelligenceDefaults : data[f] = IntelligenceDefaults[f]

Called(h, data) ==
    [h EXCEPT ![CandidateKey(data)] = [n |-> @.n + 1, plain |-> @.plain /\ IsDefault(data)]]

ExtractIntelligence ==
    /\ now < MaxExtractions
    /\ \E data \in Candidates :
        LET r == extract_intelligence(intel, data, nextId, now)
        IN /\ intel' = r.tbl
           /\ ret' = r.ret
           /\ calls' = Called(calls, data)
    /\ now' = now + 1
    /\ nextId' = nextId + 1
    /\ UNCHANGED <<sessions, messages, pc, held, ledgerVars, cacheVars, poolVars>>

GetConfirmedIntelligence ==
    /\ \E s \in sessions : ret' \in get_confirmed_intelligence(intel, s.id)
    /\ UNCHANGED <<sessions, messages, intel, now, nextId, pc, held, calls, ledgerVars, cacheVars,
                   poolVars>>

NextIntel ==
    \/ ExtractIntelligence
    \/ GetConfirmedIntelligence

SpecIntel == InitIntel /\ [][NextIntel]_vars

----------------------------------------------------------------------------
(* Concurrent extract_intelligence calls.  A call awaits three times: for a  *)
(* pooled connection (pool.acquire), for the statement (conn.fetchrow), and  *)
(* it leaves the `async with` block, handing the connection back, when it    *)
(* returns or raises.  PostgreSQL runs the INSERT ... ON CONFLICT DO UPDATE  *)
(* as one atomic step.                                                       *)

\* create_database_pool: max_size
max_size == 20

\* the candidates the concurrent callers pass: both artifact types of the first
\* message of session 1, default or overridden
ConcurrentCandidates ==
    {data \in Candidates :
        /\ data.extracted_from_message_id = 3
        /\ data.confirmation_count = 1}

\* the call is made: extract_intelligence(intel_data) starts and awaits a connection
Call(p) ==
    /\ pc[p].at = "idle"
    /\ \E data \in ConcurrentCandidates : pc' = [pc EXCEPT ![p] = [at |-> "acquire", data |-> data]]
    /\ UNCHANGED <<sessions, messages, intel, now, nextId, ret, held, calls, ledgerVars, cacheVars,
                   poolVars>>

\* async with self.pool.acquire() as conn
Acquire(p) ==
    /\ pc[p].at = "acquire"
    /\ Cardinality(held) < max_size
    /\ held' = held \cup {p}
    /\ pc' = [pc EXCEPT ![p].at = "fetchrow"]
    /\ UNCHANGED <<sessions, messages, intel, now, nextId, ret, calls, ledgerVars, cacheVars,
                   poolVars>>

\* row = await conn.fetchrow(INSERT ... ON CONFLICT ... RETURNING *)
Fetchrow(p) ==
    /\ pc[p].at = "fetchrow"
    /\ LET u == UpsertIntel(intel, pc[p].data, nextId, now)
       IN /\ intel' = u.tbl
          /\ pc' = [pc EXCEPT ![p] = [at |-> "return", data |-> pc[p].data, row |-> u.row]]
    /\ calls' = Called(calls, pc[p].data)
    /\ now' = now + 1
    /\ nextId' = nextId + 1
    /\ UNCHANGED <<sessions, messages, ret, held, ledgerVars, cacheVars, poolVars>>

\* return ExtractedIntelligence(**dict(row)) if row else None, leaving the block
Return(p) ==
    /\ pc[p].at = "return"
    /\ ret' = IntelOrRaise("extract_intelligence", [intel_data |-> pc[p].data], pc[p].row)
    /\ held' = held \ {p}
    /\ pc' = [pc EXCEPT ![p] = [at |-> "done", data |-> pc[p].data]]
    /\ UNCHANGED <<sessions, messages, intel, now, nextId, calls, ledgerVars, cacheVars, poolVars>>

NextConcurrent == \E p \in Procs : Call(p) \/ Acquire(p) \/ Fetchrow(p) \/ Return(p)

SpecConcurrent == InitIntel /\ [][NextConcurrent]_vars

----------------------------------------------------------------------------
(* Concurrent create_session calls, from the empty store.  A call awaits a   *)
(* pooled connection, then the INSERT, which PostgreSQL runs as one atomic   *)
(* statement, and leaves the `async with` block when it returns or raises.   *)

\* the call is made: create_session(session_data) starts and awaits a connection
CallCreate(p) ==
    /\ pc[p].at = "idle"
    /\ \E sid \in SessionIds :
        pc' = [pc EXCEPT ![p] = [at |-> "acquire", data |-> SessionCreate(sid)]]
    /\ UNCHANGED <<sessions, messages, intel, now, nextId, ret, held, calls, ledgerVars, cacheVars,
                   poolVars>>

\* row = await conn.fetchrow(INSERT INTO sessions ... RETURNING *)
FetchrowCreate(p) ==
    /\ pc[p].at = "fetchrow"
    /\ LET r == create_session(sessions, pc[p].data, nextId, now)
       IN /\ sessions' = r.tbl
          /\ pc' = [pc EXCEPT ![p] = [at |-> "return", data |-> pc[p].data, ret |-> r.ret]]
    /\ now' = now + 1
    /\ nextId' = nextId + 1
    /\ UNCHANGED <<messages, intel, ret, held, calls, ledgerVars, cacheVars, poolVars>>

\* return Session(**dict(row)), or the exception of the INSERT, leaving the block
ReturnCreate(p) ==
    /\ pc[p].at = "return"
    /\ ret' = pc[p].ret
    /\ held' = held \ {p}
    /\ pc' = [pc EXCEPT ![p] = [at |-> "done", data |-> pc[p].data]]
    /\ UNCHANGED <<sessions, messages, intel, now, nextId, calls, ledgerVars, cacheVars, poolVars>>

NextCreate == \E p \in Procs : CallCreate(p) \/ Acquire(p) \/ FetchrowCreate(p) \/ ReturnCreate(p)

SpecCreate == Init /\ [][NextCreate]_vars

----------------------------------------------------------------------------
(* The session listing: sessions are created under fresh identifiers, their  *)
(* status is updated, and the active ones are listed                         *)

ListingIds == {"s1", "s2", "s3"}

\* the patches that set status alone
StatusPatches ==
    {SessionUpdate({"status"}, [status |-> Some(Member("SessionStatus", n))]) :
        n \in EnumNames("SessionStatus")}

OpenSession ==
    /\ now < MaxListingWrites
    /\ \E sid \in ListingIds :
        /\ ~SessionIdTaken(sessions, sid)
        /\ LET r == create_session(sessions, SessionCreate(sid), nextId, now)
           IN /\ sessions' = r.tbl
              /\ ret' = r.ret
    /\ now' = now + 1
    /\ nextId' = nextId + 1
    /\ UNCHANGED <<messages, intel, pc, held, calls, ledgerVars, cacheVars, poolVars>>

SetStatus ==
    /\ now < MaxListingWrites
    /\ \E s \in sessions, updates \in StatusPatches \cup NullingPatches :
        LET r == update_session(sessions, s.session_id, updates)
        IN /\ sessions' = r.tbl
           /\ ret' = r.ret
    /\ now' = now + 1
    /\ UNCHANGED <<messages, intel, nextId, pc, held, calls, ledgerVars, cacheVars, poolVars>>

GetActiveSessions ==
    /\ ret' \in get_active_sessions(sessions)
    /\ UNCHANGED <<sessions, messages, intel, now, nextId, pc, held, calls, ledgerVars, cacheVars,
                   poolVars>>

NextListing ==
    \/ OpenSession
    \/ SetStatus
    \/ GetActiveSessions

SpecListing == Init /\ [][NextListing]_vars

----------------------------------------------------------------------------
(* The message ledger: messages are appended to session 1 under turn numbers *)
(* the caller chooses, beside two messages of session 2, and read back       *)

\* the messages of session 2, appended with decreasing turn numbers
SeedOtherMessages ==
    LET m1 == create_message({}, MessageCreate(2, Member("Sender", "AGENT"), 2, -2), 3, -2).tbl
    IN create_message(m1, MessageCreate(2, Member("Sender", "SCAMMER"), 1, -1), 4, -1).tbl

InitMessages ==
    /\ sessions = SeedSessions
    /\ messages = SeedOtherMessages
    /\ intel = {}
    /\ now = 0
    /\ nextId = 5
    /\ ret = NoCall
    /\ pc = [p \in Procs |-> Idle]
    /\ held = {}
    /\ calls = NoCalls
    /\ evolution = {}
    /\ tactics = {}
    /\ logs = {}
    /\ recorded = {}
    /\ redis = {}
    /\ changed = NoChange
    /\ touched = NoTouch
    /\ inflight = NoLoad
    /\ lent = 0
    /\ finished = 0
    /\ pending = NoPending

\* the turn numbers callers give
TurnNumbers == 1..3

\* the limits callers give
Limits == {1, 2, DefaultLimit}

AppendMessage ==
    /\ now < MaxAppends
    /\ \E sender \in {Member("Sender", "SCAMMER"), Member("Sender", "AGENT")}, turn \in TurnNumbers :
        LET r == create_message(messages, MessageCreate(1, sender, turn, now), nextId, now)
        IN /\ messages' = r.tbl
           /\ ret' = r.ret
    /\ now' = now + 1
    /\ nextId' = nextId + 1
    /\ UNCHANGED <<sessions, intel, pc, held, calls, ledgerVars, cacheVars, poolVars>>

GetConversationHistory ==
    /\ \E s \in sessions, limit \in Limits :
        ret' \in get_conversation_history(messages, s.id, limit)
    /\ UNCHANGED <<sessions, messages, intel, now, nextId, pc, held, calls, ledgerVars, cacheVars,
                   poolVars>>

NextMessages ==
    \/ AppendMessage
    \/ GetConversationHistory
    \/ GetLastAgentMessage

SpecMessages == InitMessages /\ [][NextMessages]_vars

----------------------------------------------------------------------------
(* The ledgers: every writing operation of the service, one call at a time,  *)
(* on a store that holds two sessions and their messages                     *)

InitLedger ==
    /\ sessions = SeedSessions
    /\ messages = SeedMessages
    /\ intel = {}
    /\ now = 0
    /\ nextId = 6
    /\ ret = NoCall
    /\ pc = [p \in Procs |-> Idle]
    /\ held = {}
    /\ calls = NoCalls
    /\ evolution = {}
    /\ tactics = {}
    /\ logs = {}
    /\ recorded = {}
    /\ redis = {}
    /\ changed = NoChange
    /\ touched = NoTouch
    /\ inflight = NoLoad
    /\ lent = 0
    /\ finished = 0
    /\ pending = NoPending

\* the signals_detected and keywords_used callers give: absent, empty, a list
SignalLists == {None, Some(<< >>), Some(<<"urgency", "payment_request">>)}

KeywordLists == {None, Some(<< >>), Some(<<"otp", "kyc">>)}

\* the details callers give a log entry
LogDetails == {None, Some(SourceDict), Some(DatetimeDict)}

RecordStateEvolution ==
    /\ now < MaxLedgerWrites
    /\ \E msg \in {q \in messages : q.session_id = 1}, signals \in SignalLists :
        LET data == StateEvolutionCreate(msg.session_id, msg.id, msg.turn_number, signals)
            r == record_state_evolution(evolution, data, nextId, now)
        IN /\ evolution' = r.tbl
           /\ ret' = r.ret
           /\ recorded' = recorded \cup {[id |-> nextId, signals |-> signals]}
    /\ now' = now + 1
    /\ nextId' = nextId + 1
    /\ UNCHANGED <<sessions, messages, intel, pc, held, calls, tactics, logs, cacheVars, poolVars>>

GetStateHistory ==
    /\ \E s \in sessions : ret' \in get_state_history(evolution, s.id)
    /\ UNCHANGED <<sessions, messages, intel, now, nextId, pc, held, calls, ledgerVars, cacheVars,
                   poolVars>>

RecordTactic ==
    /\ now < MaxLedgerWrites
    /\ \E keywords \in KeywordLists :
        LET r == record_tactic(tactics, TacticCreate(1, 1, keywords), nextId, now)
        IN /\ tactics' = r.tbl
           /\ ret' = r.ret
    /\ now' = now + 1
    /\ nextId' = nextId + 1
    /\ UNCHANGED <<sessions, messages, intel, pc, held, calls, evolution, logs, recorded, cacheVars,
                   poolVars>>

Log ==
    /\ now < MaxLedgerWrites
    /\ \E details \in LogDetails :
        LET r == log(logs, SystemLogCreate(details), nextId, now)
        IN /\ logs' = r.tbl
           /\ ret' = r.ret
    /\ now' = now + 1
    /\ nextId' = nextId + 1
    /\ UNCHANGED <<sessions, messages, intel, pc, held, calls, evolution, tactics, recorded, cacheVars,
                   poolVars>>

\* an agent message under a turn number session 1 holds already
AppendTurn ==
    /\ now < MaxLedgerWrites
    /\ LET r == create_message(messages, MessageCreate(1, Member("Sender", "AGENT"), 2, now),
                               nextId, now)
       IN /\ messages' = r.tbl
          /\ ret' = r.ret
    /\ now' = now + 1
    /\ nextId' = nextId + 1
    /\ UNCHANGED <<sessions, intel, pc, held, calls, ledgerVars, cacheVars, poolVars>>

\* an extraction of the first message of session 1, with the default fields
ExtractDefault ==
    /\ now < MaxLedgerWrites
    /\ \E data \in {c \in Candidates :
                        /\ IsDefault(c) /\ c.extracted_from_message_id = 3
                        /\ c.artifact_type = Member("ArtifactType", "UPI_ID")} :
        LET r == extract_intelligence(intel, data, nextId, now)
        IN /\ intel' = r.tbl
           /\ ret' = r.ret
           /\ calls' = Called(calls, data)
    /\ now' = now + 1
    /\ nextId' = nextId + 1
    /\ UNCHANGED <<sessions, messages, pc, held, ledgerVars, cacheVars, poolVars>>

\* a third session
CreateThird ==
    /\ now < MaxLedgerWrites
    /\ LET r == create_session(sessions, SessionCreate("s3"), nextId, now)
       IN /\ sessions' = r.tbl
          /\ ret' = r.ret
    /\ now' = now + 1
    /\ nextId' = nextId + 1
    /\ UNCHANGED <<messages, intel, pc, held, calls, ledgerVars, cacheVars, poolVars>>

\* session 1 ends
CompleteSession ==
    /\ now < MaxLedgerWrites
    /\ LET updates == SessionUpdate({"status", "completed_at"},
                                    [status |-> Some(Member("SessionStatus", "COMPLETED")),
                                     completed_at |-> Some(now)])
           r == update_session(sessions, "s1", updates)
       IN /\ sessions' = r.tbl
          /\ ret' = r.ret
    /\ now' = now + 1
    /\ UNCHANGED <<messages, intel, nextId, pc, held, calls, ledgerVars, cacheVars, poolVars>>

NextLedger ==
    \/ RecordStateEvolution
    \/ GetStateHistory
    \/ RecordTactic
    \/ Log
    \/ AppendTurn
    \/ ExtractDefault
    \/ CreateThird
    \/ CompleteSession

SpecLedger == InitLedger /\ [][NextLedger]_vars

----------------------------------------------------------------------------
(* The cache beside the store: session s1 is updated in the store, its       *)
(* snapshots are cached, read, invalidated and kept warm, and time passes    *)

InitCache ==
    /\ sessions = SeedSessions
    /\ messages = {}
    /\ intel = {}
    /\ now = 0
    /\ nextId = 3
    /\ ret = NoCall
    /\ pc = [p \in Procs |-> Idle]
    /\ held = {}
    /\ calls = NoCalls
    /\ evolution = {}
    /\ tactics = {}
    /\ logs = {}
    /\ recorded = {}
    /\ redis = {}
    /\ changed = NoChange
    /\ touched = NoTouch
    /\ inflight = NoLoad
    /\ lent = 0
    /\ finished = 0
    /\ pending = NoPending

\* the seconds one step of the clock takes: half the TTL
TickSeconds == session_ttl \div 2

\* the patches the decision loop applies
CachePatches ==
    {SessionUpdate({"status"}, [status |-> Some(Member("SessionStatus", "COMPLETED"))]),
     SessionUpdate({"current_state"},
                   [current_state |-> Some(Member("ConversationState", "ENGAGING"))])}

\* key was written with value at instant t
Written(h, key, value, t) ==
    {e \in h : e.key # key} \cup {[key |-> key, at |-> t, value |-> value, deleted |-> FALSE]}

\* the TTL of keys was renewed at instant t
Touch(h, keys, t) == {IF e.key \in keys THEN [e EXCEPT !.at = t] ELSE e : e \in h}

\* keys were deleted
Forgotten(h, keys) == {IF e.key \in keys THEN [e EXCEPT !.deleted = TRUE] ELSE e : e \in h}

\* the keys among ks that Redis holds
Held(kv, ks) == {e.key : e \in {x \in kv : x.key \in ks}}

\* update_session on s1; the cache is not touched
UpdateStored ==
    /\ \E updates \in CachePatches :
        LET r == update_session(sessions, "s1", updates)
        IN /\ sessions' = r.tbl
           /\ ret' = r.ret
           /\ changed' = IF r.tbl # sessions THEN [changed EXCEPT !["s1"] = now] ELSE changed
    /\ UNCHANGED <<messages, intel, now, nextId, pc, held, calls, ledgerVars, redis, touched,
                   poolVars>>

\* the caller caches the session it has just read from the store
CacheSession ==
    /\ \E s \in {r \in sessions : r.session_id = "s1"} :
        /\ redis' = cache_session(redis, s.session_id, SessionSnapshot(s), now)
        /\ touched' = Written(touched, session_key(s.session_id), SessionSnapshot(s), now)
        /\ ret' = Absent("cache_session",
                         [session_id |-> s.session_id, session_data |-> SessionSnapshot(s)])
    /\ UNCHANGED <<sessions, messages, intel, now, nextId, pc, held, calls, ledgerVars, changed,
                   poolVars>>

GetCachedSession ==
    /\ \E sid \in SessionIds : ret' = get_cached_session(redis, sid)
    /\ UNCHANGED <<sessions, messages, intel, now, nextId, pc, held, calls, ledgerVars, cacheVars,
                   poolVars>>

CacheState ==
    /\ \E s \in {r \in sessions : r.session_id = "s1"} :
        /\ redis' = cache_state(redis, s.session_id, StateSnapshot(s), now)
        /\ touched' = Written(touched, state_key(s.session_id), StateSnapshot(s), now)
        /\ ret' = Absent("cache_state",
                         [session_id |-> s.session_id, state_data |-> StateSnapshot(s)])
    /\ UNCHANGED <<sessions, messages, intel, now, nextId, pc, held, calls, ledgerVars, changed,
                   poolVars>>

GetCachedState ==
    /\ \E sid \in SessionIds : ret' = get_cached_state(redis, sid)
    /\ UNCHANGED <<sessions, messages, intel, now, nextId, pc, held, calls, ledgerVars, cacheVars,
                   poolVars>>

InvalidateSession ==
    /\ \E sid \in SessionIds :
        /\ redis' = invalidate_session(redis, sid)
        /\ touched' = Forgotten(touched, {session_key(sid), state_key(sid)})
        /\ ret' = Absent("invalidate_session", [session_id |-> sid])
    /\ UNCHANGED <<sessions, messages, intel, now, nextId, pc, held, calls, ledgerVars, changed,
                   poolVars>>

\* the caller that keeps the live session warm
Extender == 1

\* the sessions it keeps warm: the one the behaviours cache
WarmSessions == {"s1"}

\* extend_session_ttl is called and awaits redis.expire(session_key, ttl); the
\* call is then suspended before its second command, and the clock and the
\* other callers' commands go on
ExtendSessionTtl ==
    /\ pc[Extender] = Idle
    /\ \E sid \in WarmSessions :
        /\ redis' = expire(redis, session_key(sid), session_ttl, now)
        /\ touched' = Touch(touched, Held(redis, {session_key(sid)}), now)
        /\ pc' = [pc EXCEPT ![Extender] = [at |-> "expire_state", session_id |-> sid]]
    /\ UNCHANGED <<sessions, messages, intel, now, nextId, ret, held, calls, ledgerVars, changed,
                   poolVars>>

\* the suspended call awaits redis.expire(state_key, ttl) and returns
ExtendStateTtl ==
    /\ pc[Extender].at = "expire_state"
    /\ LET sid == pc[Extender].session_id
       IN /\ redis' = expire(redis, state_key(sid), session_ttl, now)
          /\ touched' = Touch(touched, Held(redis, {state_key(sid)}), now)
          /\ ret' = Absent("extend_session_ttl", [session_id |-> sid])
    /\ pc' = [pc EXCEPT ![Extender] = Idle]
    /\ UNCHANGED <<sessions, messages, intel, now, nextId, held, calls, ledgerVars, changed,
                   poolVars>>

\* half an hour passes, and Redis drops the keys that expire in it
Tick ==
    /\ now < MaxTicks * TickSeconds
    /\ now' = now + TickSeconds
    /\ redis' = Expired(redis, now')
    /\ UNCHANGED <<sessions, messages, intel, nextId, ret, pc, held, calls, ledgerVars, changed,
                   touched, poolVars>>

NextCache ==
    \/ UpdateStored
    \/ GetSessionById
    \/ CacheSession
    \/ GetCachedSession
    \/ CacheState
    \/ GetCachedState
    \/ InvalidateSession
    \/ ExtendSessionTtl
    \/ ExtendStateTtl
    \/ Tick

SpecCache == InitCache /\ [][NextCache]_vars

----------------------------------------------------------------------------
(* Concurrent cache calls on session s1.  One caller keeps the session warm   *)
(* with extend_session_ttl, which awaits Redis twice: EXPIRE of the session   *)
(* key, then EXPIRE of the state key.  The other callers invalidate the       *)
(* session or cache its snapshots, each with one Redis command.  Redis runs   *)
(* a command as one atomic step.                                              *)

WriterOps == {"invalidate_session", "cache_session", "cache_state"}

\* the call p makes
OpsOf(p) == IF p = Extender THEN {"extend_session_ttl"} ELSE WriterOps

Done(op) == [at |-> "done", op |-> op]

\* p is called and awaits its first Redis command
CallCache(p) ==
    /\ pc[p] = Idle
    /\ \E op \in OpsOf(p) : pc' = [pc EXCEPT ![p] = [at |-> op]]
    /\ UNCHANGED <<sessions, messages, intel, now, nextId, ret, held, calls, ledgerVars, cacheVars,
                   poolVars>>

\* await self.redis.expire(session_key, self.session_ttl)
ExpireSessionKey(p) ==
    /\ pc[p] = [at |-> "extend_session_ttl"]
    /\ redis' = expire(redis, session_key("s1"), session_ttl, now)
    /\ touched' = Touch(touched, Held(redis, {session_key("s1")}), now)
    /\ pc' = [pc EXCEPT ![p] = [at |-> "expire_state"]]
    /\ UNCHANGED <<sessions, messages, intel, now, nextId, ret, held, calls, ledgerVars, changed,
                   poolVars>>

\* await self.redis.expire(state_key, self.session_ttl), and the call returns
ExpireStateKey(p) ==
    /\ pc[p] = [at |-> "expire_state"]
    /\ redis' = expire(redis, state_key("s1"), session_ttl, now)
    /\ touched' = Touch(touched, Held(redis, {state_key("s1")}), now)
    /\ ret' = Absent("extend_session_ttl", [session_id |-> "s1"])
    /\ pc' = [pc EXCEPT ![p] = Done("extend_session_ttl")]
    /\ UNCHANGED <<sessions, messages, intel, now, nextId, held, calls, ledgerVars, changed,
                   poolVars>>

RunInvalidate(p) ==
    /\ pc[p] = [at |-> "invalidate_session"]
    /\ redis' = invalidate_session(redis, "s1")
    /\ touched' = Forgotten(touched, {session_key("s1"), state_key("s1")})
    /\ ret' = Absent("invalidate_session", [session_id |-> "s1"])
    /\ pc' = [pc EXCEPT ![p] = Done("invalidate_session")]
    /\ UNCHANGED <<sessions, messages, intel, now, nextId, held, calls, ledgerVars, changed,
                   poolVars>>

RunCacheSession(p) ==
    /\ pc[p] = [at |-> "cache_session"]
    /\ \E s \in {r \in sessions : r.session_id = "s1"} :
        /\ redis' = cache_session(redis, s.session_id, SessionSnapshot(s), now)
        /\ touched' = Written(touched, session_key(s.session_id), SessionSnapshot(s), now)
        /\ ret' = Absent("cache_session",
                         [session_id |-> s.session_id, session_data |-> SessionSnapshot(s)])
    /\ pc' = [pc EXCEPT ![p] = Done("cache_session")]
    /\ UNCHANGED <<sessions, messages, intel, now, nextId, held, calls, ledgerVars, changed,
                   poolVars>>

RunCacheState(p) ==
    /\ pc[p] = [at |-> "cache_state"]
    /\ \E s \in {r \in sessions : r.session_id = "s1"} :
        /\ redis' = cache_state(redis, s.session_id, StateSnapshot(s), now)
        /\ touched' = Written(touched, state_key(s.session_id), StateSnapshot(s), now)
        /\ ret' = Absent("cache_state",
                         [session_id |-> s.session_id, state_data |-> StateSnapshot(s)])
    /\ pc' = [pc EXCEPT ![p] = Done("cache_state")]
    /\ UNCHANGED <<sessions, messages, intel, now, nextId, held, calls, ledgerVars, changed,
                   poolVars>>

NextExtend ==
    \/ \E p \in Procs :
        \/ CallCache(p)
        \/ ExpireSessionKey(p)
        \/ ExpireStateKey(p)
        \/ RunInvalidate(p)
        \/ RunCacheSession(p)
        \/ RunCacheState(p)
    \/ Tick

SpecExtend == InitCache /\ [][NextExtend]_vars

----------------------------------------------------------------------------
(* Patched sessions: update_session is called with SessionUpdate objects      *)
(* built from keyword arguments of the caller's choice, the names of columns  *)
(* SessionUpdate does not declare among them                                  *)

\* the fields of Session that SessionUpdate does not declare
ProtectedFields ==
    {"id", "session_id", "channel", "language", "locale", "persona", "initial_confidence",
     "total_messages_exchanged", "intelligence_extracted_count", "created_at", "updated_at"}

\* the keyword arguments callers build a SessionUpdate from at instant ts
CallerKwargs(ts) ==
    {[status |-> Some(Member("SessionStatus", "COMPLETED")), completed_at |-> Some(ts)],
     [current_state |-> Some(Member("ConversationState", "ENGAGING")),
      status |-> Some(Member("SessionStatus", "BURNED")),
      scam_detected |-> Some(TRUE),
      final_confidence |-> Some(80),
      exposure_risk |-> Some(40),
      engagement_duration_seconds |-> Some(120),
      completed_at |-> Some(ts),
      callback_sent |-> Some(TRUE),
      callback_sent_at |-> Some(ts),
      callback_response |-> None],
     [session_id |-> "s2"],
     [scam_detected |-> None],
     [callback_sent |-> Some(TRUE), callback_response |-> Some(SourceDict), channel |-> "Email"],
     [id |-> 9, session_id |-> "s9", created_at |-> ts, final_confidence |-> Some(60)],
     [channel |-> "Email", language |-> "hi", locale |-> "US",
      persona |-> "BUSY_PROFESSIONAL", initial_confidence |-> 99,
      total_messages_exchanged |-> 7, intelligence_extracted_count |-> 5,
      scam_detected |-> Some(TRUE)]}

UpdateFromKwargs ==
    /\ now < MaxPatches
    /\ \E sid \in SessionIds, kw \in CallerKwargs(now) :
        LET r == update_session(sessions, sid, SessionUpdateOf(kw))
        IN /\ sessions' = r.tbl
           /\ ret' = [r.ret EXCEPT !.arg = [session_id |-> sid, kw |-> kw]]
    /\ now' = now + 1
    /\ UNCHANGED <<messages, intel, nextId, pc, held, calls, ledgerVars, cacheVars, poolVars>>

NextPatch ==
    \/ UpdateFromKwargs
    \/ GetSessionById

SpecPatch == InitIntel /\ [][NextPatch]_vars

----------------------------------------------------------------------------
(* Concurrent update_session calls on session s1.  A call awaits a pooled     *)
(* connection, then its UPDATE ... RETURNING *, which PostgreSQL runs as one  *)
(* atomic statement on the row as it stands, and leaves the `async with`      *)
(* block when it returns or raises.                                           *)

\* the patches the concurrent callers apply: two over disjoint fields, and one
\* that shares a field with the first
ConcurrentPatches ==
    {SessionUpdate({"status"}, [status |-> Some(Member("SessionStatus", "COMPLETED"))]),
     SessionUpdate({"final_confidence", "scam_detected"},
                   [final_confidence |-> Some(80), scam_detected |-> Some(TRUE)]),
     SessionUpdate({"status", "current_state"},
                   [status |-> Some(Member("SessionStatus", "BURNED")),
                    current_state |-> Some(Member("ConversationState", "EXITING"))])}

\* the call is made: update_session(session_id, updates) builds its statement
\* and awaits a connection
CallUpdate(p) ==
    /\ pc[p].at = "idle"
    /\ \E updates \in ConcurrentPatches \cup NullingPatches \cup CallbackPatches :
        pc' = [pc EXCEPT ![p] = [at |-> "acquire", session_id |-> "s1", updates |-> updates]]
    /\ UNCHANGED <<sessions, messages, intel, now, nextId, ret, held, calls, ledgerVars, cacheVars,
                   poolVars>>

\* row = await conn.fetchrow(UPDATE sessions SET ... WHERE session_id = $n RETURNING *)
FetchrowUpdate(p) ==
    /\ pc[p].at = "fetchrow"
    /\ LET r == update_session(sessions, pc[p].session_id, pc[p].updates)
       IN /\ sessions' = r.tbl
          /\ pc' = [pc EXCEPT ![p] = [at |-> "return", session_id |-> pc[p].session_id,
                                      updates |-> pc[p].updates, ret |-> r.ret]]
    /\ UNCHANGED <<messages, intel, now, nextId, ret, held, calls, ledgerVars, cacheVars, poolVars>>

\* return Session(**dict(row)), leaving the block
ReturnUpdate(p) ==
    /\ pc[p].at = "return"
    /\ ret' = pc[p].ret
    /\ held' = held \ {p}
    /\ pc' = [pc EXCEPT ![p] = [at |-> "done", session_id |-> pc[p].session_id,
                                updates |-> pc[p].updates]]
    /\ UNCHANGED <<sessions, messages, intel, now, nextId, calls, ledgerVars, cacheVars, poolVars>>

NextUpdates ==
    \E p \in Procs : CallUpdate(p) \/ Acquire(p) \/ FetchrowUpdate(p) \/ ReturnUpdate(p)

SpecUpdates == InitIntel /\ [][NextUpdates]_vars

----------------------------------------------------------------------------
(* The pool under load: more operations are requested than the pool has      *)
(* connections.  The callers are told apart only by what they hold, so which  *)
(* of the operations in their blocks has its statement run is chosen when it  *)
(* runs.  The burst is over before the clock moves.                           *)

InitPool ==
    /\ sessions = SeedSessions
    /\ messages = SeedMessages
    /\ intel = {}
    /\ now = 0
    /\ nextId = 6
    /\ ret = NoCall
    /\ pc = [p \in Procs |-> Idle]
    /\ held = {}
    /\ calls = NoCalls
    /\ evolution = {}
    /\ tactics = {}
    /\ logs = {}
    /\ recorded = {}
    /\ redis = {}
    /\ changed = NoChange
    /\ touched = NoTouch
    /\ inflight = NoLoad
    /\ lent = 0
    /\ finished = 0
    /\ pending = NoPending

\* an operation is called: it holds no connection yet
Request ==
    /\ InFlight(inflight) + finished < MaxRequests
    /\ \E op \in PoolOps :
        inflight' = [inflight EXCEPT ![OpState(0, ConnectionsNeeded(op))] = @ + 1]
    /\ UNCHANGED <<sessions, messages, intel, now, nextId, ret, pc, held, calls, ledgerVars,
                   cacheVars, lent, finished, pending>>

\* async with self.pool.acquire() as conn: the pool lends a connection it has
AcquireConn ==
    /\ lent < max_size
    /\ lent' = lent + 1
    /\ \E st \in OpStates :
        /\ st.more > 0
        /\ inflight[st] > 0
        /\ inflight' = [inflight EXCEPT ![st] = @ - 1,
                                        ![OpState(st.holds + 1, st.more - 1)] = @ + 1]
    /\ UNCHANGED <<sessions, messages, intel, now, nextId, ret, pc, held, calls, ledgerVars,
                   cacheVars, finished, pending>>

\* the calls of the load: a third session is opened, which a second such call
\* finds stored; and s1 is updated with an empty patch, that is, read
RunStatement(op, tbl, uuid, ts) ==
    CASE op = "create_session" -> create_session(tbl, SessionCreate("s3"), uuid, ts)
      [] op = "update_session_empty" ->
            update_session(tbl, "s1", SessionUpdate({}, [status |-> None]))

\* row = await conn.fetchrow(...): an operation inside its block has its
\* statement run on the sessions table; the row or the error is its own until
\* it leaves the block, and its connection stays lent
Execute ==
    /\ finished' = finished
    /\ lent' = lent
    /\ BagCardinality(pending) < MaxReleasing
    /\ \E st \in OpStates, op \in PoolOps :
        /\ st.more = 0
        /\ inflight[st] > Releasing(pending, st.holds)
        /\ ConnectionsNeeded(op) = st.holds
        /\ LET r == RunStatement(op, sessions, nextId, now)
           IN /\ sessions' = r.tbl
              /\ nextId' = IF Cardinality(r.tbl) > Cardinality(sessions) THEN nextId + 1
                           ELSE nextId
              /\ pending' = pending (+) SetToBag({Result(r.ret, st.holds)})
    /\ UNCHANGED <<messages, intel, now, ret, pc, held, calls, ledgerVars, cacheVars,
                   inflight>>

\* the operation leaves the block: __aexit__ of pool.acquire() hands the
\* connection back, and the call returns the Session or raises
Finish ==
    /\ finished' = finished + 1
    /\ \E res \in BagToSet(pending) :
        /\ pending' = pending (-) SetToBag({res})
        /\ inflight' = [inflight EXCEPT ![OpState(res.holds, 0)] = @ - 1]
        /\ lent' = lent - Released(res.ret.outcome, res.holds)
        /\ ret' = res.ret
    /\ UNCHANGED <<sessions, messages, intel, now, nextId, pc, held, calls, ledgerVars,
                   cacheVars>>

NextPool ==
    \/ Request
    \/ AcquireConn
    \/ Execute
    \/ Finish

SpecPool == InitPool /\ [][NextPool]_vars

\* the event loop resumes a coroutine whose await can complete: a waiting
\* acquire is served when the pool has a connection, a statement ends, and a
\* release ends
SpecPoolFair ==
    SpecPool /\ WF_vars(AcquireConn) /\ WF_vars(Execute) /\ WF_vars(Finish)

----------------------------------------------------------------------------
(* Properties of the intelligence deduplicator *)

\* the stored rows of a natural key
RowsIn(tbl, k) == {r \in tbl : <<r.session_id, r.artifact_type, r.artifact_value>> = k}

RowsOf(k) == RowsIn(intel, k)

\* C1: dedup idempotence.  After n >= 1 extract_intelligence calls for a key, all
\* with the default candidate, exactly one row is stored for the key, its
\* confirmation_count is n and confirmed is (n >= 2); from the second call on
\* first_seen_at is unchanged and last_seen_at is advanced.
DedupIdempotence ==
    /\ [](\A k \in Keys :
            (calls[k].n >= 1 /\ calls[k].plain) =>
                /\ Cardinality(RowsOf(k)) = 1
                /\ \A r \in RowsOf(k) :
                    /\ r.confirmation_count = calls[k].n
                    /\ r.confirmed = (calls[k].n >= 2))
    /\ [][\A k \in Keys :
            (calls[k].n >= 1 /\ calls'[k].n = calls[k].n + 1 /\ calls'[k].plain) =>
                \A r \in RowsOf(k) : \A q \in RowsIn(intel', k) :
                    /\ q.first_seen_at = r.first_seen_at
                    /\ q.last_seen_at > r.last_seen_at]_vars

\* a key extracted three times with the default candidate
DedupIdempotenceWitness ==
    \E k \in Keys :
        /\ calls[k].n = 3 /\ calls[k].plain
        /\ \E r \in RowsOf(k) : r.confirmation_count = 3 /\ r.last_seen_at > r.first_seen_at

\* C2: under every interleaving of concurrent extract_intelligence calls no state
\* holds two rows of one key, the row's confirmation_count has grown by one per
\* executed extraction, and once all calls have completed it counts every call
\* made for the key (the candidates carry confirmation_count 1).
ConcurrentDedup ==
    /\ \A k \in Keys :
        /\ Cardinality(RowsOf(k)) <= 1
        /\ (calls[k].n = 0) = (RowsOf(k) = {})
        /\ \A r \in RowsOf(k) : r.confirmation_count = calls[k].n
    /\ (\A p \in Procs : pc[p].at = "done") =>
        \A k \in Keys : \A r \in RowsOf(k) :
            r.confirmation_count = Cardinality({p \in Procs : CandidateKey(pc[p].data) = k})

\* every call was for the same key and all have completed
ConcurrentDedupWitness ==
    /\ \A p \in Procs : pc[p].at = "done"
    /\ \E k \in Keys :
        /\ \A p \in Procs : CandidateKey(pc[p].data) = k
        /\ \E r \in RowsOf(k) : r.confirmation_count = MaxCalls

\* the step is an extract_intelligence call that found its key stored
IsMerge == ret'.op = "extract_intelligence" /\ calls' # calls
           /\ RowsOf(CandidateKey(ret'.arg.intel_data)) # {}

\* C3: when extract_intelligence hits an existing key, the merge changes only
\* confirmation_count, confirmed and last_seen_at: every other field keeps the
\* value of the original row, and the call returns the merged row.
MergePreservesOriginal ==
    [][IsMerge =>
        LET k == CandidateKey(ret'.arg.intel_data)
        IN \A r \in RowsOf(k) : \A q \in RowsIn(intel', k) :
            /\ \A f \in DOMAIN r \ {"confirmation_count", "confirmed", "last_seen_at"} :
                q[f] = r[f]
            /\ ret'.outcome = "ok"
            /\ ret'.value = Some(ParseIntel(q))]_vars

\* C4: cross-session isolation.  The same (artifact_type, artifact_value)
\* extracted in two sessions is stored as two rows, one per session, and an
\* extraction in one session leaves every row of the other sessions as it was.
CrossSessionIsolation ==
    /\ [](\A k \in Keys : calls[k].n >= 1 =>
            \E r \in intel : r.session_id = k[1] /\ r.artifact_type = k[2]
                             /\ r.artifact_value = k[3])
    /\ [][ret'.op = "extract_intelligence" /\ calls' # calls =>
            \A r \in intel :
                r.session_id # ret'.arg.intel_data.session_id => r \in intel']_vars

\* one artifact extracted in session 1, then twice in session 2: two rows, the
\* row of session 1 still unconfirmed
CrossSessionIsolationWitness ==
    \E r \in intel, q \in intel :
        /\ r.session_id = 1 /\ q.session_id = 2
        /\ r.artifact_type = q.artifact_type /\ r.artifact_value = q.artifact_value
        /\ r.confirmation_count = 1 /\ ~r.confirmed
        /\ q.confirmation_count = 2 /\ q.last_seen_at > r.last_seen_at

\* what the spec asks of a stored artifact, and of a candidate
CountConsistent(r) ==
    r.confirmation_count >= 1 /\ (r.confirmation_count >= 2 => r.confirmed)

\* C5 as claimed: for any candidates a caller may pass, every stored artifact has
\* confirmation_count >= 1 and is confirmed once confirmation_count >= 2.
CountInvariantAnyCandidate == \A r \in intel : CountConsistent(r)

\* C5 as amended: each re-extraction of an existing key makes its
\* confirmation_count greater by one and leaves it confirmed; a first extraction
\* stores the candidate's own confirmation_count and confirmed, so the stored
\* artifacts keep confirmation_count >= 1 and (confirmation_count >= 2 =>
\* confirmed) as long as the candidates passed satisfy them.
CountInvariantPreserved ==
    [][ret'.op = "extract_intelligence" /\ calls' # calls =>
        LET data == ret'.arg.intel_data
            k == CandidateKey(data)
        IN /\ \A r \in RowsOf(k) : \A q \in RowsIn(intel', k) :
                /\ q.confirmation_count = r.confirmation_count + 1
                /\ q.confirmed
           /\ RowsOf(k) = {} =>
                \A q \in RowsIn(intel', k) :
                    /\ q.confirmation_count = data.confirmation_count
                    /\ q.confirmed = data.confirmed
           /\ ((\A r \in intel : CountConsistent(r)) /\ CountConsistent(data)) =>
                \A q \in intel' : CountConsistent(q)]_vars

\* a default artifact confirmed by its re-extraction, beside one stored
\* unconfirmed with the confirmation_count 3 its candidate carried
CountInvariantWitness ==
    /\ \E r \in intel : r.confirmation_count = 2 /\ r.confirmed
                        /\ r.last_seen_at > r.first_seen_at
    /\ \E r \in intel : r.confirmation_count = 3 /\ ~r.confirmed

\* the last call was get_confirmed_intelligence and returned a list
ConfirmedReturned == ret.op = "get_confirmed_intelligence" /\ ret.outcome = "list"

SortedByCountDesc(s) ==
    \A i \in 1..Len(s) - 1 : s[i].confirmation_count >= s[i + 1].confirmation_count

\* C6 as claimed: get_confirmed_intelligence returns only artifacts of the
\* session, never one whose confirmation_count is 1, ordered by
\* confirmation_count descending.
ConfirmedNeverCountOne ==
    ConfirmedReturned =>
        /\ \A i \in 1..Len(ret.value) :
            /\ ret.value[i].session_id = ret.arg.session_uuid
            /\ ret.value[i].confirmation_count # 1
        /\ SortedByCountDesc(ret.value)

\* C6 as amended: get_confirmed_intelligence returns only artifacts of the
\* session whose confirmed flag is true, ordered by confirmation_count
\* descending; an artifact with confirmation_count 1 is among them when its
\* candidate was passed with confirmed = true, and never when every extraction
\* of it carried the default candidate.
ConfirmedOnlyFlagged ==
    ConfirmedReturned =>
        /\ \A i \in 1..Len(ret.value) :
            /\ ret.value[i].session_id = ret.arg.session_uuid
            /\ ret.value[i].confirmed
            /\ \E r \in intel : ParseIntel(r) = ret.value[i]
            /\ calls[<<ret.value[i].session_id, EnumValue(ret.value[i].artifact_type),
                       ret.value[i].artifact_value>>].plain
                    => ret.value[i].confirmation_count >= 2
        /\ SortedByCountDesc(ret.value)

\* a list of two: a re-extracted artifact ahead of one stored confirmed with
\* confirmation_count 1
ConfirmedOnlyFlaggedWitness ==
    /\ ConfirmedReturned
    /\ Len(ret.value) = 2
    /\ ret.value[1].confirmation_count = 2
    /\ ret.value[2].confirmation_count = 1

----------------------------------------------------------------------------
(* Properties of the session store *)

\* the step is an update_session call
IsUpdate == ret'.op = "update_session"

\* C7: partial update isolation.  update_session(id, patch) changes only the
\* fields present in the patch: every other field of that session, and every
\* field of every other session, is the same before and after; no session is
\* added or removed, and the record the call returns is the updated row.
PartialUpdateIsolation ==
    [][IsUpdate =>
        LET sid == ret'.arg.session_id
            fs == ret'.arg.updates.fields_set
        IN /\ \A r \in sessions :
                IF r.session_id = sid
                THEN \E q \in sessions' :
                        /\ q.session_id = sid
                        /\ \A f \in DOMAIN r \ fs : q[f] = r[f]
                        /\ ret'.outcome = "ok" => ret'.value = Some(ParseSession(q))
                ELSE r \in sessions'
           /\ {q.session_id : q \in sessions'} = {r.session_id : r \in sessions}
           /\ Cardinality(sessions') = Cardinality(sessions)
           /\ messages' = messages /\ intel' = intel]_vars

\* only status was updated, on a session whose current_state and
\* final_confidence had been set before, beside a second session
PartialUpdateIsolationWitness ==
    /\ ret.op = "update_session" /\ ret.outcome = "ok"
    /\ ret.arg.updates.fields_set = {"status"}
    /\ ret.value[1].status = Some(Member("SessionStatus", "COMPLETED"))
    /\ ret.value[1].final_confidence = Some(80)
    /\ ret.value[1].current_state = Some(Member("ConversationState", "PROBING"))

\* C8: update_session with an empty patch is a pure read: the store is left as
\* it was, the call does not raise, and it returns what get_session_by_id
\* returns for the identifier (the stored session, or None).
EmptyPatchIsRead ==
    [][(IsUpdate /\ ret'.arg.updates.fields_set = {}) =>
        LET sid == ret'.arg.session_id
            read == get_session_by_id(sessions', sid)
        IN /\ sessions' = sessions /\ messages' = messages /\ intel' = intel
           /\ ret'.outcome # "raise"
           /\ ret'.outcome = read.outcome /\ ret'.value = read.value
           /\ (\A r \in sessions : r.session_id = sid => ret'.value = Some(ParseSession(r)))
           /\ ((\A r \in sessions : r.session_id # sid) => ret'.outcome = "none")]_vars

\* the identifier the step's call looks up matches no record
LooksUpNothing ==
    \/ ret'.op \in {"get_session_by_id", "update_session"}
       /\ \A r \in sessions : r.session_id # ret'.arg.session_id
    \/ ret'.op = "get_session_by_uuid" /\ \A r \in sessions : r.id # ret'.arg.uuid
    \/ ret'.op = "get_last_agent_message"
       /\ \A m \in messages : ~(m.session_id = ret'.arg.session_uuid /\ m.sender = "agent")

\* C9: NotFound is a normal absent result: get_session_by_id,
\* get_session_by_uuid, get_last_agent_message and update_session (with an empty
\* or a non-empty patch) on an identifier with no matching record return None
\* without raising and without creating or changing any record.
NotFoundIsAbsent ==
    [][LooksUpNothing =>
        /\ ret'.outcome = "none"
        /\ sessions' = sessions /\ messages' = messages /\ intel' = intel]_vars

\* C10 as claimed: a session whose status is active has final_confidence and
\* completed_at unset.
ActiveHasNoFinals ==
    \A r \in sessions :
        r.status = Some("active") => r.final_confidence = None /\ r.completed_at = None

\* C10 as amended: create_session stores a session with final_confidence and
\* completed_at unset, and each of the two changes only in an update_session
\* whose patch names it, whatever the status is: an active session gets either
\* field when a patch carries it.
FinalsSetOnlyByPatch ==
    [][/\ \A q \in sessions' :
            (\A r \in sessions : r.session_id # q.session_id) =>
                q.final_confidence = None /\ q.completed_at = None
       /\ \A r \in sessions : \A q \in sessions' : \A f \in {"final_confidence", "completed_at"} :
            (q.session_id = r.session_id /\ q[f] # r[f]) =>
                /\ IsUpdate
                /\ ret'.arg.session_id = r.session_id
                /\ f \in ret'.arg.updates.fields_set
                /\ q[f] = ret'.arg.updates[f]]_vars

\* an active session whose final_confidence and completed_at a patch has set
FinalsSetOnlyByPatchWitness ==
    \E r \in sessions :
        r.status = Some("active") /\ r.final_confidence # None /\ r.completed_at # None

----------------------------------------------------------------------------
(* Properties of session creation and listing *)

\* the step is the INSERT of call p
InsertsBy(p) == pc[p].at = "fetchrow" /\ pc'[p].at = "return"

\* the step is the return of call p
ReturnsBy(p) == pc[p].at = "return" /\ pc'[p].at = "done"

\* C11: create_session with a session_id that is stored already fails with a
\* unique violation and leaves the stored session and the rest of the store as
\* they were, so at most one session has a given session_id in every reachable
\* state, also when creates of the same session_id run concurrently; a
\* successful create_session returns the persisted record: the caller's
\* session_id, a generated id no other session has, status active and
\* current_state UNKNOWN.
CreateIsUnique ==
    [][/\ \A r, q \in sessions' : r.session_id = q.session_id => r = q
       /\ \A p \in Procs : InsertsBy(p) =>
            IF \E r \in sessions : r.session_id = pc[p].data.session_id
            THEN /\ pc'[p].ret.outcome = "raise"
                 /\ pc'[p].ret.value = Some([exc |-> "UniqueViolationError"])
                 /\ sessions' = sessions /\ messages' = messages /\ intel' = intel
            ELSE /\ pc'[p].ret.outcome = "ok"
                 /\ sessions \subseteq sessions'
                 /\ Cardinality(sessions') = Cardinality(sessions) + 1
       /\ \A p \in Procs : (ReturnsBy(p) /\ ret'.outcome = "ok") =>
            LET v == ret'.value[1]
            IN /\ v.session_id = pc[p].data.session_id
               /\ v.status = Some(Member("SessionStatus", "ACTIVE"))
               /\ v.current_state = Some(Member("ConversationState", "UNKNOWN"))
               /\ \E r \in sessions' : ParseSession(r) = v
               /\ \A r \in sessions' : r.id = v.id => r.session_id = v.session_id]_vars

\* of two concurrent creates of one session_id the second has raised, while the
\* first, whose row is stored, has yet to return
CreateIsUniqueWitness ==
    /\ ret.op = "create_session" /\ ret.outcome = "raise"
    /\ \E p \in Procs :
        /\ pc[p].at = "return" /\ pc[p].ret.outcome = "ok"
        /\ pc[p].data.session_id = ret.arg.session_data.session_id
        /\ \E r \in sessions : r.session_id = pc[p].data.session_id

\* C12: after any sequence of create_session and update_session calls,
\* get_active_sessions returns exactly the sessions whose status is active,
\* each once: a session updated to completed, terminated or burned is absent
\* and every session still active is present; the list is ordered
\* most-recently-created first, and the call writes nothing.
ActiveListing ==
    [][ret'.op = "get_active_sessions" =>
        LET s == ret'.value
        IN /\ ret'.outcome = "list"
           /\ {s[i] : i \in 1..Len(s)} =
                {ParseSession(r) : r \in {q \in sessions : q.status = Some("active")}}
           /\ \A i, j \in 1..Len(s) : i # j => s[i].session_id # s[j].session_id
           /\ \A i \in 1..Len(s) :
                s[i].status \notin {Some(Member("SessionStatus", n)) :
                                        n \in {"COMPLETED", "TERMINATED", "BURNED"}}
           /\ \A i, j \in 1..Len(s) : i < j => s[i].created_at > s[j].created_at
           /\ sessions' = sessions]_vars

----------------------------------------------------------------------------
(* Properties of the message ledger *)

\* the stored messages of a session
MessagesOf(session_uuid) == {r \in messages : r.session_id = session_uuid}

\* C13: for messages of one session appended in any insertion order,
\* get_conversation_history(session, limit) returns only messages of that
\* session, each once, ascending by turn_number (strictly where the turn numbers
\* differ), min(limit, number of messages) of them, limit being 50 by default,
\* and they are the ones with the lowest turn numbers: no message left out has
\* a lower turn number than one returned.
HistoryAscending ==
    [][ret'.op = "get_conversation_history" =>
        LET s == ret'.value
            all == MessagesOf(ret'.arg.session_uuid)
            got == {s[i] : i \in 1..Len(s)}
        IN /\ ret'.outcome = "list"
           /\ got \subseteq {ParseMessage(r) : r \in all}
           /\ \A i, j \in 1..Len(s) : i # j => s[i].id # s[j].id
           /\ \A i, j \in 1..Len(s) : i < j => s[i].turn_number <= s[j].turn_number
           /\ Len(s) <= ret'.arg.limit
           /\ Len(s) = IF Cardinality(all) < ret'.arg.limit
                       THEN Cardinality(all) ELSE ret'.arg.limit
           /\ \A r \in all : ParseMessage(r) \notin got =>
                \A i \in 1..Len(s) : s[i].turn_number <= r.turn_number
           /\ messages' = messages]_vars

\* three messages were appended with turn numbers 3, 1, 2 and a history of
\* limit 2 returned turns 1 and 2
HistoryAscendingWitness ==
    /\ ret.op = "get_conversation_history" /\ ret.arg.limit = 2
    /\ Len(ret.value) = 2
    /\ ret.value[1].turn_number = 1 /\ ret.value[2].turn_number = 2
    /\ \E r \in MessagesOf(ret.arg.session_uuid) :
        /\ r.turn_number = 3
        /\ r.created_at < ret.value[1].created_at
        /\ ret.value[1].created_at < ret.value[2].created_at

\* the stored agent messages of a session
AgentMessagesOf(session_uuid) ==
    {r \in messages : r.session_id = session_uuid /\ r.sender = "agent"}

\* C14 as claimed: get_last_agent_message returns an agent message of the
\* session, None exactly when the session has none, and the message returned is
\* the agent message appended last, also when the agent messages were appended
\* with turn numbers that do not increase.
LastAgentIsLastAppended ==
    [][ret'.op = "get_last_agent_message" =>
        LET agent == AgentMessagesOf(ret'.arg.session_uuid)
        IN /\ (agent = {}) <=> (ret'.outcome = "none")
           /\ agent # {} =>
                /\ ret'.outcome = "ok"
                /\ \E r \in agent : ret'.value = Some(ParseMessage(r))
                /\ \A q \in agent : q.created_at <= ret'.value[1].created_at]_vars

\* C14 as amended: get_last_agent_message returns an agent message of the
\* session, never a scammer message or a message of another session, and None
\* exactly when the session has no agent message; the message returned is one
\* with the highest turn_number among them, which is the one appended last only
\* when the turn numbers were appended in increasing order.
LastAgentIsHighestTurn ==
    [][ret'.op = "get_last_agent_message" =>
        LET agent == AgentMessagesOf(ret'.arg.session_uuid)
        IN /\ (agent = {}) <=> (ret'.outcome = "none")
           /\ agent # {} =>
                /\ ret'.outcome = "ok"
                /\ \E r \in agent : ret'.value = Some(ParseMessage(r))
                /\ ret'.value[1].sender = Member("Sender", "AGENT")
                /\ ret'.value[1].session_id = ret'.arg.session_uuid
                /\ \A q \in agent : q.turn_number <= ret'.value[1].turn_number
           /\ messages' = messages]_vars

\* the agent message returned has the highest turn number and was not the last
\* one appended: an agent message and a scammer message followed it
LastAgentIsHighestTurnWitness ==
    /\ ret.op = "get_last_agent_message" /\ ret.outcome = "ok"
    /\ \E q \in AgentMessagesOf(ret.arg.session_uuid) :
        /\ q.created_at > ret.value[1].created_at
        /\ q.turn_number < ret.value[1].turn_number
    /\ \E q \in MessagesOf(ret.arg.session_uuid) :
        /\ q.sender = "scammer"
        /\ q.turn_number > ret.value[1].turn_number

----------------------------------------------------------------------------
(* Properties of the ledgers *)

\* C15: the ledgers are append-only.  A message, state-evolution row or tactic
\* row, once appended, stays as it is under every later operation; no operation
\* removes a session or an artifact, whose rows keep their identity while their
\* fields are updated; so the stored sessions, messages, state-evolution rows,
\* tactics and artifacts only grow along every execution.
AppendOnly ==
    [][/\ messages \subseteq messages'
       /\ evolution \subseteq evolution'
       /\ tactics \subseteq tactics'
       /\ \A r \in sessions : \E q \in sessions' : q.id = r.id /\ q.session_id = r.session_id
       /\ \A r \in intel : \E q \in intel' : q.id = r.id /\ IntelKey(q) = IntelKey(r)
       /\ Cardinality(sessions) <= Cardinality(sessions')
       /\ Cardinality(intel) <= Cardinality(intel')]_vars

\* a message was appended under a turn number its session held already, and a
\* state-evolution row and a tactic were appended after it
AppendOnlyWitness ==
    /\ \E r, q \in messages :
        /\ r.session_id = q.session_id /\ r.turn_number = q.turn_number /\ r.id # q.id
        /\ \E e \in evolution : e.timestamp > r.created_at /\ e.timestamp > q.created_at
    /\ tactics # {}

\* the list a caller's signals_detected or keywords_used stands for: an absent
\* one stands for the empty list
ListGiven(v) == IF v = None THEN << >> ELSE v[1]

\* C16: the signals_detected list given to record_state_evolution comes back as
\* the identical ordered list in the record it returns and in every later
\* get_state_history read of the session; a record created with signals_detected
\* absent or empty reads back with the empty list, never with None.
SignalsRoundTrip ==
    [][/\ ret'.op = "record_state_evolution" =>
            /\ ret'.outcome = "ok"
            /\ ret'.value[1].signals_detected # None
            /\ ret'.value[1].signals_detected =
                    Some(ListGiven(ret'.arg.evolution_data.signals_detected))
       /\ ret'.op = "get_state_history" =>
            LET s == ret'.value
            IN /\ ret'.outcome = "list"
               /\ {s[i].id : i \in 1..Len(s)} =
                    {r.id : r \in {q \in evolution : q.session_id = ret'.arg.session_uuid}}
               /\ \A i \in 1..Len(s) :
                    /\ s[i].signals_detected # None
                    /\ \E g \in recorded :
                        /\ g.id = s[i].id
                        /\ s[i].signals_detected = Some(ListGiven(g.signals))]_vars

\* a history read returned three records: one recorded with the two signals, one
\* with the empty list, one with none
SignalsRoundTripWitness ==
    /\ ret.op = "get_state_history" /\ Len(ret.value) = 3
    /\ \E i, j, k \in 1..3 :
        /\ [id |-> ret.value[i].id, signals |-> None] \in recorded
        /\ [id |-> ret.value[j].id, signals |-> Some(<< >>)] \in recorded
        /\ [id |-> ret.value[k].id, signals |-> Some(<<"urgency", "payment_request">>)]
                \in recorded
        /\ ret.value[k].signals_detected = Some(<<"urgency", "payment_request">>)

\* C17: record_tactic returns a tactic recorded with keywords_used absent or
\* empty with the empty list, never with None, and a non-empty keywords_used as
\* the identical ordered list.
KeywordsRoundTrip ==
    [][ret'.op = "record_tactic" =>
        /\ ret'.outcome = "ok"
        /\ ret'.value[1].keywords_used # None
        /\ ret'.value[1].keywords_used = Some(ListGiven(ret'.arg.tactic_data.keywords_used))]_vars

\* C18: a failure while a log entry is written does not reach the caller as an
\* exception, which would abort the operation the entry accompanies, and it
\* leaves every session, message and intelligence record as it was.
LogIsBestEffort ==
    [][ret'.op = "log" =>
        /\ ret'.outcome # "raise"
        /\ sessions' = sessions /\ messages' = messages /\ intel' = intel]_vars

----------------------------------------------------------------------------
(* Properties of the cache *)

CacheOps ==
    {"cache_session", "get_cached_session", "cache_state", "get_cached_state",
     "invalidate_session", "extend_session_ttl"}

\* the step is the return of a call: in the cache's behaviours every call sets
\* ret as it returns; the clock's step, which moves now, and the first command
\* of extend_session_ttl, which suspends the call, leave ret alone
IsReturn == now' = now /\ ~(pc[Extender] = Idle /\ pc'[Extender] # Idle)

\* the step is the return of a cache call
IsCacheCall == ret'.op \in CacheOps /\ IsReturn

\* C19: the cache is not authoritative.  No cache operation (cache_session,
\* cache_state, invalidate_session, extend_session_ttl, the reads, a key's
\* expiry) changes the durable store, and a durable read returns what the store
\* holds whatever the cache holds: executions that apply the same store
\* operations and differ in their cache operations get the same read results.
CacheNonAuthority ==
    [][/\ (IsCacheCall \/ redis' # redis) =>
            /\ sessions' = sessions /\ messages' = messages /\ intel' = intel
            /\ evolution' = evolution /\ tactics' = tactics /\ logs' = logs
       /\ (ret'.op = "get_session_by_id" /\ IsReturn) =>
            LET hit == {r \in sessions : r.session_id = ret'.arg.session_id}
            IN /\ redis' = redis
               /\ IF hit = {} THEN ret'.outcome = "none"
                  ELSE \E r \in hit : ret'.outcome = "ok" /\ ret'.value = Some(ParseSession(r))]_vars

\* the store was read while the cache held a snapshot of the session that the
\* store no longer agrees with, and the read returned the stored record
CacheNonAuthorityWitness ==
    /\ ret.op = "get_session_by_id" /\ ret.outcome = "ok"
    /\ ret.value[1].status = Some(Member("SessionStatus", "COMPLETED"))
    /\ \E e \in redis :
        /\ e.key = session_key(ret.arg.session_id)
        /\ JsonLoads(e.value).status = "active"

\* the session a cached read is about, as the store holds it now
StoredNow(sid) == CHOOSE r \in sessions' : r.session_id = sid

\* the cached read of the step returned a snapshot the stored record differs from
ReturnsStale ==
    /\ IsCacheCall /\ ret'.outcome = "ok"
    /\ \/ ret'.op = "get_cached_session"
          /\ ret'.value[1] # SessionSnapshot(StoredNow(ret'.arg.session_id))
       \/ ret'.op = "get_cached_state"
          /\ ret'.value[1] # StateSnapshot(StoredNow(ret'.arg.session_id))

\* C20 as claimed: a cached snapshot that differs from the durable record is
\* returned by get_cached_session or get_cached_state no later than session_ttl
\* seconds after the durable record changed, whatever cache operations ran,
\* repeated extend_session_ttl calls among them.
StaleWithinTtlOfChange ==
    [][ReturnsStale => now' - changed'[ret'.arg.session_id] <= session_ttl]_vars

\* the key a cached read looks up
KeyRead(r) ==
    IF r.op = "get_cached_session" THEN session_key(r.arg.session_id)
    ELSE state_key(r.arg.session_id)

\* C20 as amended: a cached snapshot, stale or not, is returned only within
\* session_ttl seconds of the last cache_session or cache_state that wrote its
\* key or of the last extend_session_ttl that found the key, and not after an
\* invalidate_session; the bound runs from that write or extension, not from
\* the change of the durable record, so a stale snapshot kept warm by
\* extend_session_ttl calls is returned for as long as they go on.
CachedWithinTtlOfTouch ==
    [][/\ (IsCacheCall /\ ret'.op \in {"get_cached_session", "get_cached_state"}
                /\ ret'.outcome = "ok") =>
            \E h \in touched' : h.key = KeyRead(ret') /\ ~h.deleted /\ now' - h.at < session_ttl
       /\ (IsCacheCall /\ ret'.op = "invalidate_session") =>
            /\ get_cached_session(redis', ret'.arg.session_id).outcome = "none"
            /\ get_cached_state(redis', ret'.arg.session_id).outcome = "none"]_vars

\* a snapshot the stored record has differed from for more than session_ttl
\* seconds was returned, and Redis still holds it
CachedWithinTtlOfTouchWitness ==
    /\ ret.op = "get_cached_session" /\ ret.outcome = "ok"
    /\ \E r \in sessions :
        /\ r.session_id = ret.arg.session_id
        /\ ret.value[1] # SessionSnapshot(r)
    /\ now - changed[ret.arg.session_id] > session_ttl
    /\ get(redis, session_key(ret.arg.session_id)) = Some(JsonDumps(ret.value[1]))

\* C21: invalidate_session(id) removes the session key and the state key of
\* id, so get_cached_session(id) and get_cached_state(id) return None after it;
\* it does not raise; it is idempotent: a second invalidate_session(id), or one
\* on keys never cached, changes nothing; and it leaves the entries of every
\* other session_id as they were.
InvalidateRemovesBoth ==
    [][(IsCacheCall /\ ret'.op = "invalidate_session") =>
        LET sid == ret'.arg.session_id
            own == {session_key(sid), state_key(sid)}
        IN /\ ret'.outcome = "none"
           /\ get_cached_session(redis', sid).outcome = "none"
           /\ get_cached_state(redis', sid).outcome = "none"
           /\ \A e \in redis' : e.key \notin own
           /\ {e \in redis' : e.key \notin own} = {e \in redis : e.key \notin own}
           /\ invalidate_session(redis', sid) = redis'
           /\ (\A e \in redis : e.key \notin own) => redis' = redis]_vars

\* both keys of s1 were cached, s1 was invalidated before either expired, and
\* Redis holds neither
InvalidateRemovesBothWitness ==
    /\ ret.op = "invalidate_session" /\ ret.arg.session_id = "s1"
    /\ now = 0
    /\ \A k \in {session_key("s1"), state_key("s1")} : \E h \in touched : h.key = k /\ h.deleted
    /\ redis = {}

\* C23: a cached snapshot is readable exactly until its TTL runs out.
\* get_cached_session (get_cached_state) returns the snapshot last written
\* under the key as long as fewer than session_ttl seconds have passed since the
\* key's last write or extend_session_ttl, and None from then on; every write
\* makes the key expire session_ttl seconds later; and a write of the session
\* key leaves the value and the TTL of the state key as they were, and the
\* other way round.
ReadableUntilTtl ==
    [][/\ (IsCacheCall /\ ret'.op \in {"get_cached_session", "get_cached_state"}) =>
            LET live == {h \in touched' : /\ h.key = KeyRead(ret') /\ ~h.deleted
                                           /\ now' - h.at < session_ttl}
            IN /\ (ret'.outcome = "ok") <=> (live # {})
               /\ (ret'.outcome # "ok") => ret'.outcome = "none"
               /\ \A h \in live : ret'.value = Some(h.value)
       /\ (IsCacheCall /\ ret'.op \in {"cache_session", "cache_state"}) =>
            LET key == IF ret'.op = "cache_session" THEN session_key(ret'.arg.session_id)
                       ELSE state_key(ret'.arg.session_id)
            IN /\ \E e \in redis' : e.key = key /\ e.expires_at = now' + session_ttl
               /\ {e \in redis' : e.key # key} = {e \in redis : e.key # key}]_vars

\* the session key, written again half a TTL after its first write, was read
\* after the first write's TTL had run out, beside a state key that had expired
ReadableUntilTtlWitness ==
    /\ ret.op = "get_cached_session" /\ ret.outcome = "ok"
    /\ \E h \in touched : h.key = session_key(ret.arg.session_id) /\ h.at > 0 /\ now >= session_ttl
    /\ \E h \in touched : h.key = state_key(ret.arg.session_id) /\ now - h.at >= session_ttl
    /\ get_cached_state(redis, ret.arg.session_id).outcome = "none"

\* the keys Redis holds
KeysOf(kv) == {e.key : e \in kv}

\* the step from kv to kv2 at instant t renewed the TTL of key, if kv holds it,
\* and did nothing else
OnlyRenews(kv, kv2, key, t) ==
    /\ KeysOf(kv2) = KeysOf(kv)
    /\ \A e \in kv : \E f \in kv2 :
        /\ f.key = e.key /\ f.value = e.value
        /\ f.expires_at = IF e.key = key THEN t + session_ttl ELSE e.expires_at
    /\ key \notin KeysOf(kv) => kv2 = kv

\* C22: extend_session_ttl never creates a key and never changes a cached
\* value.  Each of its two refreshes leaves Redis as it is when the key is
\* absent or expired and only makes the key expire session_ttl seconds later
\* when it is held, wherever concurrent invalidate_session, cache_session and
\* cache_state calls for the same id fall between or around the two; so every
\* key Redis holds carries the value its last cache_session or cache_state
\* wrote, and none that was invalidated since.
ExtendOnlyRenews ==
    /\ [][\A p \in Procs :
            /\ (pc[p] = [at |-> "extend_session_ttl"] /\ pc'[p] # pc[p]) =>
                    OnlyRenews(redis, redis', session_key("s1"), now)
            /\ (pc[p] = [at |-> "expire_state"] /\ pc'[p] # pc[p]) =>
                    OnlyRenews(redis, redis', state_key("s1"), now)]_vars
    /\ [](\A e \in redis : \E h \in touched :
            h.key = e.key /\ ~h.deleted /\ e.value = JsonDumps(h.value))

\* an extend_session_ttl has returned, invalidate_session and cache_state calls
\* have run beside it, and the state key, written before the present instant,
\* expires session_ttl seconds from now while the session key is gone
ExtendOnlyRenewsWitness ==
    /\ pc[Extender] = Done("extend_session_ttl")
    /\ \E p, q \in Procs : pc[p] = Done("invalidate_session") /\ pc[q] = Done("cache_state")
    /\ ret.op # "extend_session_ttl"
    /\ now >= 2 * TickSeconds
    /\ session_key("s1") \notin KeysOf(redis)
    /\ \E e \in redis : e.key = state_key("s1") /\ e.expires_at > session_ttl

\* C26: update_session writes only the fields SessionUpdate declares.
\* Whatever keyword arguments the caller builds the patch from, the id,
\* session_id, channel, language, locale, persona, initial_confidence,
\* created_at, total_messages_exchanged and intelligence_extracted_count of
\* every stored session are after the call what they were before it, and no
\* session is added or removed.
UpdateWritesAllowList ==
    [][IsUpdate =>
        /\ {[f \in ProtectedFields |-> r[f]] : r \in sessions'} =
           {[f \in ProtectedFields |-> r[f]] : r \in sessions}
        /\ Cardinality(sessions') = Cardinality(sessions)
        /\ \A r \in sessions : \E q \in sessions' :
            \A f \in DOMAIN r \ UpdatableFields : q[f] = r[f]]_vars

\* a patch built from the names of protected columns beside a declared field
\* was applied: the declared field was written
UpdateWritesAllowListWitness ==
    /\ ret.op = "update_session" /\ ret.outcome = "ok"
    /\ "kw" \in DOMAIN ret.arg
    /\ DOMAIN ret.arg.kw \cap ProtectedFields # {}
    /\ "final_confidence" \in DOMAIN ret.arg.kw
    /\ \E r \in sessions :
        /\ r.session_id = ret.arg.session_id
        /\ r.final_confidence = ret.arg.kw.final_confidence

\* C27: turn numbers are the caller's.  create_message accepts any turn_number,
\* one its session holds already, one that leaves a gap or one lower than
\* earlier turns, without raising; it stores one more row, which carries the
\* turn_number given, and returns it; and the rows stored before keep their
\* turn numbers.
TurnsCallerAuthoritative ==
    [][(ret'.op = "create_message" /\ now' # now) =>
        LET given == ret'.arg.message_data
        IN /\ ret'.outcome = "ok"
           /\ ret'.value[1].turn_number = given.turn_number
           /\ messages \subseteq messages'
           /\ Cardinality(messages') = Cardinality(messages) + 1
           /\ \A r \in messages' \ messages :
                /\ r.id = ret'.value[1].id
                /\ r.session_id = given.session_id
                /\ r.turn_number = given.turn_number]_vars

\* session 1 holds three messages, appended in this order: turn 3, turn 1 (lower,
\* and leaving turn 2 out), turn 1 again
TurnsCallerAuthoritativeWitness ==
    /\ ret.op = "create_message"
    /\ \E a, b, c \in messages :
        /\ a.session_id = 1 /\ b.session_id = 1 /\ c.session_id = 1
        /\ a.created_at < b.created_at /\ b.created_at < c.created_at
        /\ a.turn_number = 3 /\ b.turn_number = 1 /\ c.turn_number = 1
        /\ c.id = ret.value[1].id

\* the calls whose UPDATE has run
Applied == {p \in Procs : pc[p].at \in {"return", "done"}}

\* the fields the patch of call p sets
FieldsOf(p) == pc[p].updates.fields_set

\* C28: concurrent sparse updates do not lose each other's writes.  Under every
\* interleaving of update_session calls on one session, the stored record
\* carries, in every field that one call alone has patched, that call's value:
\* so after two calls with patches over disjoint field sets it carries both
\* patches' values; and the record each call returns carries the call's own
\* values.
NoLostUpdate ==
    /\ [](\A p \in Applied : \A f \in FieldsOf(p) :
            (\A q \in Applied \ {p} : f \notin FieldsOf(q)) =>
                \A r \in SessionRows(sessions, pc[p].session_id) :
                    r[f] = Normalize(f, pc[p].updates[f]))
    /\ [][\A p \in Procs :
            (pc[p].at = "return" /\ pc'[p].at = "done") =>
                /\ ret'.outcome = "ok"
                /\ \A f \in FieldsOf(p) : ret'.value[1][f] = pc[p].updates[f]]_vars

\* C24: scoped connection acquisition.  Every operation in flight either
\* waits for its connection and holds none, or is inside its block and holds
\* exactly one, before its statement has run and after; the statement runs on
\* a connection that is lent and stays lent; an operation that finishes, by
\* return or by raise, hands its connection back; so the connections lent are
\* at most max_size and as many as the operations inside their blocks, and
\* none is lent when no operation is in flight.
ScopedAcquisition ==
    /\ [](/\ lent <= max_size
          /\ lent = inflight[Running]
          /\ \A st \in OpStates \ {Waiting, Running} : inflight[st] = 0
          /\ BagCardinality(pending) <= lent
          /\ \A res \in BagToSet(pending) : res.holds = 1
          /\ InFlight(inflight) = 0 => lent = 0)
    /\ [][finished' = finished + 1 =>
            /\ lent' = lent - 1
            /\ inflight' = [inflight EXCEPT ![Running] = @ - 1]
            /\ BagCardinality(pending') = BagCardinality(pending) - 1]_vars
    /\ [][(sessions' # sessions \/ BagCardinality(pending') > BagCardinality(pending)) =>
            /\ lent > 0
            /\ lent' = lent /\ inflight' = inflight /\ finished' = finished]_vars

\* every connection of the pool is lent and an operation waits for one; a
\* first create_session has returned and its connection went to another
\* operation; a second one had its INSERT refused and has not left its block
\* yet, so its connection is still lent
ScopedAcquisitionWitness ==
    /\ lent = max_size
    /\ inflight[Waiting] > 0
    /\ finished = 1
    /\ ret.outcome = "ok"
    /\ \E res \in BagToSet(pending) : res.ret.outcome = "raise"

\* operations called so far
Requested == InFlight(inflight) + finished

\* C25: pool exhaustion delays and never rejects or deadlocks.  An operation
\* called while every connection is lent waits, and nothing raises for it; no
\* operation asks for a second connection while it holds one, update_session
\* with an empty patch included; and, the event loop being fair, every
\* operation called finishes: the calls of a behaviour being finitely many,
\* from some instant on as many operations have finished as were called and
\* none is in flight.
ExhaustionDelays ==
    /\ [][(Requested' = Requested + 1 /\ lent = max_size) =>
            /\ inflight'[Waiting] = inflight[Waiting] + 1
            /\ lent' = lent /\ finished' = finished /\ ret' = ret]_vars
    /\ [](\A st \in OpStates : (st.holds > 0 /\ st.more > 0) => inflight[st] = 0)
    /\ <>[](InFlight(inflight) = 0 /\ finished = Requested)

\* more operations were called than the pool has connections: every connection
\* is lent, the excess operations wait, and none has finished yet, the
\* statements that have run having their connections still lent
ExhaustionDelaysWitness ==
    /\ lent = max_size
    /\ inflight[Waiting] = MaxRequests - max_size
    /\ finished = 0
    /\ BagCardinality(pending) = MaxReleasing

====
